---- MODULE Spec2Model ----
(***************************************************************************)
(* A model of the NesBot chat widget (frontend ChatBot component and its   *)
(* ApiService) and of the retrieval orchestrator the widget talks to.      *)
(*                                                                         *)
(* The widget is a React function component: a handler reads the state of  *)
(* the render that created it (its closure) and writes state through       *)
(* setters.  JavaScript runs one task at a time, so every action below is  *)
(* one task: the code between two awaits (or a callback), with all of its  *)
(* state updates applied in order.  Values a handler read from its closure *)
(* when it started (messages, input, sessionId, userLocation) are kept in  *)
(* the handler's record and stay as they were across its awaits.           *)
(***************************************************************************)
EXTENDS Integers, Sequences, FiniteSets, TLC

(***************************************************************************)
(* Bounds of the model.                                                    *)
(***************************************************************************)
\* how many times handleSendMessage, handleClearConversation and
\* getUserLocation are started in a run, each and together
MaxSends == 2
MaxClears == 2
MaxLoc == 1
MaxOps == 3

(***************************************************************************)
(* Program constants.                                                      *)
(***************************************************************************)
MAX_RETRY_ATTEMPTS == 2
BaseDelay == 1000

Null == "null"

(***************************************************************************)
(* Strings.  TLC gives Len, SubSeq and \o on strings.                      *)
(***************************************************************************)
UpperToLower ==
  [A |-> "a", B |-> "b", C |-> "c", D |-> "d", E |-> "e", F |-> "f", G |-> "g",
   H |-> "h", I |-> "i", J |-> "j", K |-> "k", L |-> "l", M |-> "m", N |-> "n",
   O |-> "o", P |-> "p", Q |-> "q", R |-> "r", S |-> "s", T |-> "t", U |-> "u",
   V |-> "v", W |-> "w", X |-> "x", Y |-> "y", Z |-> "z"]

AlphaNum ==
  {"a", "b", "c", "d", "e", "f", "g", "h", "i", "j", "k", "l", "m", "n", "o",
   "p", "q", "r", "s", "t", "u", "v", "w", "x", "y", "z",
   "0", "1", "2", "3", "4", "5", "6", "7", "8", "9"}

WhiteSpace == {" ", "\t", "\n", "\r", "\f"}

CharAt(str, i) == SubSeq(str, i, i)

\* the characters lo..hi of str, each replaced by Char(c); the range is
\* split in two so that the depth of the recursion stays small
RECURSIVE MapChars(_, _, _, _)
MapChars(Char(_), str, lo, hi) ==
  IF lo > hi THEN ""
  ELSE IF lo = hi THEN Char(CharAt(str, lo))
  ELSE LET mid == (lo + hi) \div 2
       IN MapChars(Char, str, lo, mid) \o MapChars(Char, str, mid + 1, hi)

\* String.prototype.toLowerCase on the characters the model's texts use
\* (ASCII letters are mapped; the accented letters of the product names are
\* lower case already).
toLowerCase(str) ==
  MapChars(LAMBDA c : IF c \in DOMAIN UpperToLower THEN UpperToLower[c] ELSE c,
           str, 1, Len(str))

\* str.replace(/[^a-z0-9]/g, '')
normalize(str) ==
  MapChars(LAMBDA c : IF c \in AlphaNum THEN c ELSE "", str, 1, Len(str))

\* String.prototype.includes
includes(str, p) ==
  \E i \in 1..(Len(str) - Len(p) + 1) : SubSeq(str, i, i + Len(p) - 1) = p

\* a test that does not trim: the input is the empty string
IsEmpty(str) == str = ""

\* input.trim() is the empty string
IsBlank(str) == \A i \in 1..Len(str) : CharAt(str, i) \in WhiteSpace

(***************************************************************************)
(* Messages of the transcript.  JavaScript's null / undefined fields are   *)
(* given a value so that every message has the same fields: references     *)
(* undefined is <<>>, stores null or undefined is storesNull = TRUE,       *)
(* hasPurchaseIntent and isLoading undefined are FALSE.  kind and turn are *)
(* not fields of the program: they record which statement built the        *)
(* message and, for the messages of a send, which send it was.             *)
(***************************************************************************)
Msg(id, text, isBot, isLoading, intent, refs, storesNull, stores, kind, turn) ==
  [id |-> id, text |-> text, isBot |-> isBot, isLoading |-> isLoading,
   hasPurchaseIntent |-> intent, references |-> refs,
   storesNull |-> storesNull, stores |-> stores, kind |-> kind, turn |-> turn]

INITIAL_MESSAGE ==
  Msg(1, "Welcome to NesBot! I can provide information about Nestle products, nutrition facts, recipes, and sustainability initiatives. What would you like to learn about today?",
      TRUE, FALSE, FALSE, <<>>, TRUE, <<>>, "greeting", 0)

confirmationMessage ==
  Msg(2, "Conversation history has been cleared. How can I help you today?",
      TRUE, FALSE, FALSE, <<>>, TRUE, <<>>, "confirmation", 0)

clearErrorMessage(len) ==
  Msg(len + 1, "I couldn't clear the conversation history. Please try again later.",
      TRUE, FALSE, FALSE, <<>>, TRUE, <<>>, "clearError", 0)

\* prev.filter(msg => msg.id !== id)
RemoveId(msgs, id) == SelectSeq(msgs, LAMBDA m : m.id # id)

(***************************************************************************)
(* What the user can type, what the services can answer.                   *)
(***************************************************************************)
\* a blank input, a question with purchase intent that names no product,
\* a question without purchase intent
Inputs ==
  {"  ",
   "where to buy it",
   "What's the cocoa content of dark chocolate?"}

NoLocation == [known |-> FALSE, latitude |-> 0, longitude |-> 0]
\* position.coords of the success callback: a point in Toronto, and a point
\* on the prime meridian, whose longitude is 0
Locations ==
  {[known |-> TRUE, latitude |-> 43, longitude |-> -79],
   [known |-> TRUE, latitude |-> 51, longitude |-> 0]}

SessionIds == {"s1", "s2"}
NoSession == Null

Store(name, distance) == [name |-> name, distance |-> distance]
\* a store locator that returns its matches in any order
AnyOrder(list) == TRUE

\* The store locator returns its matches in ascending order of distance.
OrderedByDistance(list) ==
  \A i, j \in 1..Len(list) : i < j => list[i].distance <= list[j].distance

StoreListCandidates ==
  {<<>>, <<Store("Metro", 1), Store("Loblaws", 3)>>,
   <<Store("Loblaws", 3), Store("Metro", 1)>>}

\* data.stores of a response of POST /api/stores/nearby
StoreLists == {list \in StoreListCandidates : OrderedByDistance(list)}

\* response.data of POST /api/chat.  session_id Null: the field is missing;
\* storesPresent FALSE: no stores field (or null).
ChatResponse(text, sid, refs, storesPresent, stores) ==
  [response |-> text, session_id |-> sid, references |-> refs,
   storesPresent |-> storesPresent, stores |-> stores]

ChatResponses ==
  {ChatResponse("Here is what I found.", "s1", <<>>, FALSE, <<>>),
   ChatResponse("KitKat is sold in most grocery stores.", "s2", <<"ref1">>, FALSE, <<>>),
   ChatResponse("KitKat is sold in most grocery stores.", Null, <<"ref1">>, TRUE,
                <<Store("Metro", 1), Store("Loblaws", 3)>>)}

\* How an axios call can fail: an HTTP status outside 2xx (error.response
\* is set), no answer (only error.request is set: connection lost, or the
\* timeout elapsed), or an error raised before the request left.
HttpErrors == {"http500", "http404", "http400"}
NoResponseErrors == {"network"}
Errors == HttpErrors \cup NoResponseErrors \cup {"setup"}

(***************************************************************************)
(* checkPurchaseIntent.  A regular expression of the source that is a      *)
(* finite choice of literals is the set of those literals; the i flag has  *)
(* no effect since the text tested is lower case already.                  *)
(***************************************************************************)
Cat3(as, bs, cs) == {a \o " " \o b \o " " \o c : a \in as, b \in bs, c \in cs}

BuyVerbs == {"buy", "purchase", "get", "find"}

strongBuyIntentPatterns ==
  {"where " \o x : x \in Cat3({"can", "could"}, {"i", "we"}, BuyVerbs)}
    \cup {"how " \o x : x \in Cat3({"can", "could"}, {"i", "we"}, BuyVerbs)}
    \cup {"where " \o a \o " " \o b : a \in {"to", "do you"}, b \in BuyVerbs}
    \cup {"buy online", "purchase online"}
    \cup {"shopping for", "order online", "nearby store", "store near", "stores near"}

includesAny(str, ps) == \E p \in ps : includes(str, p)

\* /where.*(sell|sold)/ : "where", then any characters but a line break,
\* then "sell" or "sold"
whereSold(str) ==
  \E i \in 1..Len(str) : \E j \in (i + 5)..Len(str) :
    /\ SubSeq(str, i, i + 4) = "where"
    /\ SubSeq(str, j, j + 3) \in {"sell", "sold"}
    /\ \A k \in (i + 5)..(j - 1) : CharAt(str, k) \notin {"\n", "\r"}

buyKeywords == {"buy", "purchase", "shop", "order"}
productKeywords ==
  {"kitkat", "kit kat", "nescafe", "smarties", "perrier", "chocolate", "coffee",
   "water", "nestle"}

\* a classifier for which a purchase verb or a product term is enough
checkPurchaseIntentEither(message) ==
  LET messageLower == toLowerCase(message)
  IN \/ includesAny(messageLower, strongBuyIntentPatterns)
     \/ whereSold(messageLower)
     \/ includesAny(messageLower, buyKeywords)
     \/ includesAny(messageLower, productKeywords)

checkPurchaseIntent(message) ==
  LET messageLower == toLowerCase(message)
  IN \/ includesAny(messageLower, strongBuyIntentPatterns)
     \/ whereSold(messageLower)
     \/ includesAny(messageLower, buyKeywords) /\ includesAny(messageLower, productKeywords)
     \/ includesAny(messageLower, {"where can i find", "where can we find"})
          /\ includesAny(messageLower, productKeywords)

(***************************************************************************)
(* Product name extraction.                                                *)
(***************************************************************************)
productNames ==
  <<"KitKat", "Nescafé", "Smarties", "Nestea", "Perrier",
    "San Pellegrino", "Coffee Crisp", "Aero", "Nestlé Pure Life", "MAGGI",
    "After Eight", "Big Turk", "Crunch", "Turtles", "Häagen-Dazs",
    "Carnation Hot Chocolate", "Milo", "Nesquik">>

\* the first name of the list that satisfies Match, Null when none does
FirstName(Match(_)) ==
  IF \E k \in DOMAIN productNames : Match(productNames[k])
  THEN productNames[CHOOSE k \in DOMAIN productNames :
                      /\ Match(productNames[k])
                      /\ \A j \in 1..(k - 1) : ~Match(productNames[j])]
  ELSE Null

\* handleSendMessage, the loop over the user's input
InputMatches(inp, name) ==
  LET input_lower == toLowerCase(inp)
      normalized_name == normalize(toLowerCase(name))
      normalized_input == normalize(input_lower)
  IN \/ includes(inp, name)
     \/ includes(input_lower, toLowerCase(name))
     \/ includes(normalized_input, normalized_name)
     \/ includes(normalized_name, normalized_input)

\* handleSendMessage, the loop over the response
ResponseMatches(text, name) ==
  \/ includes(text, name)
  \/ includes(toLowerCase(text), toLowerCase(name))

\* handleSendMessage: the product a store lookup is made for.  A response
\* text that is empty is falsy and is not scanned.
ExtractProduct(inp, responseText) ==
  LET fromInput == FirstName(LAMBDA name : InputMatches(inp, name))
  IN IF fromInput # Null THEN fromInput
     ELSE IF responseText # ""
          THEN FirstName(LAMBDA name : ResponseMatches(responseText, name))
          ELSE Null

TroubleConnecting == "Sorry, I'm having trouble connecting. Please try again later."
ServerErrorText == "Sorry, the server encountered an error. Our team is working on it."
UnreachableText == "Sorry, the chatbot service couldn't be reached. Please try again later."
NetworkErrorText == "Network error. Please check your internet connection and try again."

\* getUserLocation, the test of one message against one name
MessageMatches(text, msg_lower, normalized_msg, name) ==
  \/ includes(text, name)
  \/ includes(msg_lower, toLowerCase(name))
  \/ includes(normalized_msg, normalize(toLowerCase(name)))

\* getUserLocation, the loop over productNames for one message
ProductInText(text) ==
  LET msg_lower == toLowerCase(text)
      normalized_msg == normalize(msg_lower)
  IN FirstName(LAMBDA name : MessageMatches(text, msg_lower, normalized_msg, name))

\* ProductInText of the fixed texts of the program and of the model's inputs,
\* computed once
FixedTexts ==
  {INITIAL_MESSAGE.text, confirmationMessage.text, clearErrorMessage(0).text,
   TroubleConnecting, ServerErrorText, UnreachableText, NetworkErrorText}
    \cup Inputs \cup {r.response : r \in ChatResponses}

ProductInFixedText == [text \in FixedTexts |-> ProductInText(text)]

\* getUserLocation: the messages are scanned from the last to the first;
\* a message with an empty text is skipped.
RECURSIVE ProductOfMessages(_, _)
ProductOfMessages(msgs, i) ==
  IF i < 1 THEN Null
  ELSE LET text == msgs[i].text
           here == IF text = "" THEN Null
                   ELSE IF text \in FixedTexts THEN ProductInFixedText[text]
                   ELSE ProductInText(text)
       IN IF here # Null THEN here ELSE ProductOfMessages(msgs, i - 1)

(***************************************************************************)
(* ApiService and the retry policy.                                        *)
(***************************************************************************)
\* a payload that never carries the session id
ChatPayloadWithoutSession(message, sid, location) ==
  [query |-> message, session_id |-> Null, hasLocation |-> location.known,
   latitude |-> location.latitude, longitude |-> location.longitude]

\* sendChatMessage: the payload of POST /api/chat.  latitude and longitude
\* are added when location, location.latitude and location.longitude are
\* all truthy (0 is not).
ChatPayload(message, sid, location) ==
  LET withLocation == location.known /\ location.latitude # 0 /\ location.longitude # 0
  IN [query |-> message, session_id |-> sid, hasLocation |-> withLocation,
      latitude |-> IF withLocation THEN location.latitude ELSE 0,
      longitude |-> IF withLocation THEN location.longitude ELSE 0]

\* findNearbyStores: the payload of POST /api/stores/nearby (limit = 3)
StoresPayload(location, product) ==
  [latitude |-> location.latitude, longitude |-> location.longitude,
   limit |-> 3, product |-> product]

NoPayload == ChatPayload("", Null, NoLocation)

RECURSIVE Pow2(_)
Pow2(n) == IF n = 0 THEN 1 ELSE 2 * Pow2(n - 1)

\* a wait that does not grow
ConstantDelay(retryCount) == BaseDelay

\* a wait that is one doubling ahead: 2000 ms after the first failure
ShiftedDelay(retryCount) == BaseDelay * Pow2(retryCount + 1)

\* the wait after a failed attempt: 1000 * Math.pow(2, currentRetryCount)
BackoffDelay(retryCount) == BaseDelay * Pow2(retryCount)

\* a loop that allows one retry more
MayRetryOnceMore(retryCount, error) == retryCount <= MAX_RETRY_ATTEMPTS

\* the loop goes on after a failure while retryCount < MAX_RETRY_ATTEMPTS
MayRetry(retryCount, error) == retryCount < MAX_RETRY_ATTEMPTS

\* a message that shows the error itself
ErrorDetailText(error) == "Error: " \o error

\* the text of the message shown when the last attempt failed
ErrorMessageText(error) ==
  IF error \in HttpErrors
  THEN IF error = "http500" THEN ServerErrorText
       ELSE IF error = "http404" THEN UnreachableText
       ELSE TroubleConnecting
  ELSE IF error \in NoResponseErrors THEN NetworkErrorText
  ELSE TroubleConnecting

(***************************************************************************)
(* State of the ChatBot component, of its running handlers and of the      *)
(* session store behind the API.                                           *)
(***************************************************************************)
VARIABLES
  messages,            \* useState([INITIAL_MESSAGE])
  input,               \* useState('')
  isLoading,           \* useState(false)
  sessionId,           \* useState(null)
  userLocation,        \* useState(null)
  isGettingLocation,   \* useState(false)
  sends,               \* the calls of handleSendMessage, in the order they started
  nSends,              \* how many there were
  clears,              \* the calls of handleClearConversation that passed the guard
  nClears,
  loc,                 \* the call of getUserLocation that is waiting, if any
  nLoc,                \* how many clicks on the location button there were
  geoSupported,        \* navigator.geolocation exists in this browser
  serverSessions,      \* session ids the session store holds
  returned             \* the session_id of the latest response that carried one

chatVars ==
  <<messages, input, isLoading, sessionId, userLocation, isGettingLocation,
    sends, nSends, clears, nClears, loc, nLoc, geoSupported, serverSessions, returned>>

NoResponse == ChatResponse("", Null, <<>>, FALSE, <<>>)

IdleSend ==
  [pc |-> "idle", input |-> "", sessionId |-> Null, userLocation |-> NoLocation,
   hasPurchaseIntent |-> FALSE, loadingMessageId |-> 0, retryCount |-> 0,
   calls |-> 0, delays |-> <<>>, outcomes |-> <<>>, lastError |-> Null,
   payload |-> NoPayload, response |-> NoResponse, productName |-> Null,
   storeCalls |-> 0, storeResult |-> Null, result |-> Null, stale |-> FALSE]

\* found: the session store held the session when the request was served
IdleClear ==
  [pc |-> "idle", sessionId |-> Null, len |-> 0, result |-> Null, found |-> TRUE]

\* result: how the latest call that went past the geolocation request ended
IdleLoc ==
  [pc |-> "idle", snapshot |-> <<>>, index |-> 0, location |-> NoLocation,
   productName |-> Null, result |-> Null]

ChatInit ==
  /\ messages = <<INITIAL_MESSAGE>>
  /\ input = ""
  /\ isLoading = FALSE
  /\ sessionId = Null
  /\ userLocation = NoLocation
  /\ isGettingLocation = FALSE
  /\ sends = [s \in 1..MaxSends |-> IdleSend]
  /\ nSends = 0
  /\ clears = [c \in 1..MaxClears |-> IdleClear]
  /\ nClears = 0
  /\ loc = IdleLoc
  /\ nLoc = 0
  /\ geoSupported \in BOOLEAN
  /\ serverSessions = {}
  /\ returned = Null

(***************************************************************************)
(* Typing and sending.                                                     *)
(***************************************************************************)
\* What is kept of a call of handleSendMessage that returned: its locals
\* are gone, the record keeps what the call did (its calls, waits and
\* outcomes, its last error, whether it looked for stores and on what
\* grounds) until the next call starts.
Finished(snd, result) ==
  [IdleSend EXCEPT !.pc = "done", !.result = result,
     !.hasPurchaseIntent = snd.hasPurchaseIntent,
     !.userLocation = snd.userLocation,
     !.retryCount = snd.retryCount, !.calls = snd.calls, !.delays = snd.delays,
     !.outcomes = snd.outcomes, !.lastError = snd.lastError,
     !.response = [NoResponse EXCEPT !.storesPresent = snd.response.storesPresent,
                                     !.references = snd.response.references],
     !.storeCalls = snd.storeCalls, !.storeResult = snd.storeResult,
     !.stale = snd.stale]

Forgotten(rec, idle) == IF rec.pc = "done" THEN [idle EXCEPT !.pc = "done"] ELSE rec

\* the user may start one more handler (a bound of the runs of the widget
\* under every interleaving)
OpsLeft == nSends + nClears + nLoc < MaxOps

\* an input that is never disabled
InputAlwaysEnabled == TRUE

\* ChatInput is disabled while isLoading
InputEnabled == ~isLoading

\* onChange of ChatInput: setInput(e.target.value)
SetInput(text) ==
  /\ InputEnabled
  /\ nSends < MaxSends
  /\ text # input
  /\ input' = text
  /\ UNCHANGED <<messages, isLoading, sessionId, userLocation, isGettingLocation,
                 sends, nSends, clears, nClears, loc, nLoc, geoSupported,
                 serverSessions, returned>>

\* handleSendMessage can be called by Enter in ChatInput (disabled while
\* isLoading) or by SendButton (disabled while isLoading or when the input
\* is blank).
SendEnabled == InputEnabled

\* handleSendMessage with a blank input: if (!input.trim()) return
SendBlank ==
  /\ SendEnabled
  /\ IsBlank(input)
  /\ UNCHANGED <<messages, input, isLoading, sessionId, userLocation,
                 isGettingLocation, sends, nSends, clears, nClears, loc, nLoc,
                 geoSupported, serverSessions, returned>>

userMessage(inp, len, intent, turn) ==
  Msg(len + 1, inp, FALSE, FALSE, intent, <<>>, TRUE, <<>>, "user", turn)

loadingMessage(len, intent, turn) ==
  Msg(len + 2, "", TRUE, TRUE, intent, <<>>, TRUE, <<>>, "placeholder", turn)

\* handleSendMessage up to its first await: the user message and the
\* placeholder are appended and the first call of sendChatMessage is made.
SendStart ==
  /\ SendEnabled
  /\ ~IsBlank(input)
  /\ nSends < MaxSends
  /\ LET s == nSends + 1
         intent == checkPurchaseIntent(input)
         len == Len(messages)
     IN /\ messages' = messages \o <<userMessage(input, len, intent, s),
                                     loadingMessage(len, intent, s)>>
        /\ sends' = [t \in 1..MaxSends |->
             IF t = s
             THEN [IdleSend EXCEPT !.pc = "awaitChat", !.input = input,
                     !.sessionId = sessionId, !.userLocation = userLocation,
                     !.hasPurchaseIntent = intent, !.loadingMessageId = len + 2,
                     !.calls = 1, !.delays = <<0>>,
                     !.stale = sessionId # Null /\ sessionId \notin serverSessions,
                     !.payload = ChatPayload(input, sessionId, userLocation)]
             ELSE Forgotten(sends[t], IdleSend)]
        /\ nSends' = s
  /\ input' = ""
  /\ isLoading' = TRUE
  /\ UNCHANGED <<sessionId, userLocation, isGettingLocation, clears, nClears,
                 loc, nLoc, geoSupported, serverSessions, returned>>

\* a guard that forgets the purchase intent
StoreLookupWithoutIntent(intent, location, response) ==
  location.known /\ ~response.storesPresent

\* the guard of the nearby-store lookup inside a send
StoreLookupWanted(intent, location, response) ==
  intent /\ location.known /\ ~response.storesPresent

\* a reply that cites a source of its own
botMessageCiting(snd, stores, turn) ==
  Msg(snd.loadingMessageId, snd.response.response, TRUE, FALSE,
      snd.hasPurchaseIntent, Append(snd.response.references, "ref0"),
      stores = <<>> /\ ~snd.response.storesPresent,
      stores, "reply", turn)

\* stores: response.data.stores || null, where an empty list is truthy
botMessage(snd, stores, turn) ==
  Msg(snd.loadingMessageId, snd.response.response, TRUE, FALSE,
      snd.hasPurchaseIntent, snd.response.references,
      stores = <<>> /\ ~snd.response.storesPresent,
      stores, "reply", turn)

\* sendChatMessage resolved: the session id is stored, the placeholder is
\* removed and, unless a store lookup is awaited first, the reply is
\* appended and the send ends.
ChatOk(s, r) ==
  /\ sends[s].pc = "awaitChat"
  /\ LET snd == [sends[s] EXCEPT !.response = r,
                                 !.outcomes = Append(@, "ok")]
         shown == RemoveId(messages, snd.loadingMessageId)
         product == IF StoreLookupWanted(snd.hasPurchaseIntent, snd.userLocation, r)
                    THEN ExtractProduct(snd.input, r.response)
                    ELSE Null
     IN /\ sessionId' = IF r.session_id # Null THEN r.session_id ELSE sessionId
        /\ serverSessions' = IF r.session_id # Null
                             THEN serverSessions \cup {r.session_id}
                             ELSE serverSessions
        /\ returned' = IF r.session_id # Null THEN r.session_id ELSE returned
        /\ IF product # Null
           THEN /\ messages' = shown
                /\ sends' = [sends EXCEPT ![s] =
                     [snd EXCEPT !.pc = "awaitStores", !.productName = product,
                                 !.storeCalls = @ + 1]]
                /\ UNCHANGED isLoading
           ELSE /\ messages' = Append(shown,
                     botMessage(snd, r.stores, s))
                /\ sends' = [sends EXCEPT ![s] =
                     Finished(snd, "ok")]
                /\ isLoading' = FALSE
  /\ UNCHANGED <<input, userLocation, isGettingLocation, nSends, clears, nClears,
                 loc, nLoc, geoSupported>>

\* findNearbyStores inside a send resolved with a list
SendStoresOk(s, list) ==
  /\ sends[s].pc = "awaitStores"
  /\ messages' = Append(messages, botMessage(sends[s], list, s))
  /\ sends' = [sends EXCEPT ![s] =
       Finished([@ EXCEPT !.storeResult = IF list = <<>> THEN "empty" ELSE "found"],
                "ok")]
  /\ isLoading' = FALSE
  /\ UNCHANGED <<input, sessionId, userLocation, isGettingLocation, nSends,
                 clears, nClears, loc, nLoc, geoSupported, serverSessions, returned>>

\* a send that treats a failed store lookup like a failed chat call
SendStoresFailSurfaced(s) ==
  /\ sends[s].pc = "awaitStores"
  /\ messages' = Append(messages,
       Msg(sends[s].loadingMessageId, TroubleConnecting, TRUE, FALSE, FALSE, <<>>,
           TRUE, <<>>, "apology", s))
  /\ sends' = [sends EXCEPT ![s] =
       Finished([@ EXCEPT !.storeResult = "failed"], "failed")]
  /\ isLoading' = FALSE
  /\ UNCHANGED <<input, sessionId, userLocation, isGettingLocation, nSends,
                 clears, nClears, loc, nLoc, geoSupported, serverSessions, returned>>

\* findNearbyStores inside a send rejected: caught, the reply has no stores
SendStoresFail(s) ==
  /\ sends[s].pc = "awaitStores"
  /\ messages' = Append(messages, botMessage(sends[s], <<>>, s))
  /\ sends' = [sends EXCEPT ![s] =
       Finished([@ EXCEPT !.storeResult = "failed"], "ok")]
  /\ isLoading' = FALSE
  /\ UNCHANGED <<input, sessionId, userLocation, isGettingLocation, nSends,
                 clears, nClears, loc, nLoc, geoSupported, serverSessions, returned>>

\* an endpoint that rejects a session id its store does not hold
SessionErrorsHard(sid, sessions) ==
  IF sid # Null /\ sid \notin sessions THEN {"sessionNotFound"} ELSE {}

\* The chat endpoint and the session id of a request: a session id the
\* store does not hold gets a new session silently, so no error is
\* answered on account of the session id.
SessionErrors(sid, sessions) == {}

errorMessageObj(snd, error, turn) ==
  Msg(snd.loadingMessageId, ErrorMessageText(error), TRUE, FALSE, FALSE, <<>>,
      TRUE, <<>>, "apology", turn)

\* sendChatMessage rejected: either the backoff timer is started, or the
\* placeholder is replaced by the apology and the send ends.
ChatFail(s, error) ==
  /\ sends[s].pc = "awaitChat"
  /\ error \in Errors \cup SessionErrors(sends[s].payload.session_id, serverSessions)
  /\ LET snd == [sends[s] EXCEPT !.lastError = error,
                                 !.outcomes = Append(@, "fail")]
     IN IF MayRetry(snd.retryCount, error)
        THEN /\ sends' = [sends EXCEPT ![s] = [snd EXCEPT !.pc = "backoff"]]
             /\ UNCHANGED <<messages, isLoading>>
        ELSE /\ messages' = Append(RemoveId(messages, snd.loadingMessageId),
                                   errorMessageObj(snd, error, s))
             /\ sends' = [sends EXCEPT ![s] =
                  Finished(snd, "failed")]
             /\ isLoading' = FALSE
  /\ UNCHANGED <<input, sessionId, userLocation, isGettingLocation, nSends,
                 clears, nClears, loc, nLoc, geoSupported, serverSessions, returned>>

\* the backoff timer fired: retryCount++ and the next call is made
BackoffDone(s) ==
  /\ sends[s].pc = "backoff"
  /\ sends' = [sends EXCEPT ![s] =
       [@ EXCEPT !.pc = "awaitChat", !.retryCount = @ + 1, !.calls = @ + 1,
                 !.delays = Append(@, BackoffDelay(sends[s].retryCount)),
                 !.lastError = Null]]
  /\ UNCHANGED <<messages, input, isLoading, sessionId, userLocation,
                 isGettingLocation, nSends, clears, nClears, loc, nLoc,
                 geoSupported, serverSessions, returned>>

(***************************************************************************)
(* Clearing the conversation.                                              *)
(***************************************************************************)
\* a clear that does not look at the session id
ClearUnguarded == TRUE

\* handleClearConversation goes on only with a session id
ClearGuard == sessionId # Null

\* handleClearConversation without a session id: if (!sessionId) return
ClearNoSession ==
  /\ ~ClearGuard
  /\ UNCHANGED <<messages, input, isLoading, sessionId, userLocation,
                 isGettingLocation, sends, nSends, clears, nClears, loc, nLoc,
                 geoSupported, serverSessions, returned>>

\* handleClearConversation up to its await: DELETE /api/conversation/:id
ClearStart ==
  /\ ClearGuard
  /\ nClears < MaxClears
  /\ clears' = [c \in 1..MaxClears |->
       IF c = nClears + 1
       THEN [IdleClear EXCEPT !.pc = "await", !.sessionId = sessionId,
                              !.len = Len(messages)]
       ELSE Forgotten(clears[c], IdleClear)]
  /\ nClears' = nClears + 1
  /\ UNCHANGED <<messages, input, isLoading, sessionId, userLocation,
                 isGettingLocation, sends, nSends, loc, nLoc, geoSupported,
                 serverSessions, returned>>

\* The conversation clear endpoint, when the request reaches it: it deletes
\* the session and answers with success, whether the session exists or not.
ClearEndpoint(sid, sessions) == "ok"

\* a clear that keeps the transcript and adds the confirmation to it
ClearedKeepingTranscript(prev) == Append(prev, confirmationMessage)

\* the transcript after a clear that succeeded:
\* setMessages([INITIAL_MESSAGE]); setMessages([INITIAL_MESSAGE, confirmationMessage])
ClearedTranscript(prev) == <<INITIAL_MESSAGE, confirmationMessage>>

\* the transcript after a clear that failed
ClearFailedTranscript(prev, len) == Append(prev, clearErrorMessage(len))

\* the request reached the endpoint and its answer came back
ClearServed(c) ==
  /\ clears[c].pc = "await"
  /\ IF ClearEndpoint(clears[c].sessionId, serverSessions) = "ok"
     THEN /\ messages' = ClearedTranscript(messages)
          /\ clears' = [clears EXCEPT ![c] =
               [@ EXCEPT !.pc = "done", !.result = "ok",
                         !.found = clears[c].sessionId \in serverSessions]]
     ELSE /\ messages' = ClearFailedTranscript(messages, clears[c].len)
          /\ clears' = [clears EXCEPT ![c] =
               [@ EXCEPT !.pc = "done", !.result = "failed",
                         !.found = clears[c].sessionId \in serverSessions]]
  /\ serverSessions' = serverSessions \ {clears[c].sessionId}
  /\ UNCHANGED <<input, isLoading, sessionId, userLocation, isGettingLocation,
                 sends, nSends, nClears, loc, nLoc, geoSupported, returned>>

\* the request was lost, timed out or failed on the server
ClearLost(c) ==
  /\ clears[c].pc = "await"
  /\ messages' = ClearFailedTranscript(messages, clears[c].len)
  /\ clears' = [clears EXCEPT ![c] = [@ EXCEPT !.pc = "done", !.result = "failed"]]
  /\ UNCHANGED <<input, isLoading, sessionId, userLocation, isGettingLocation,
                 sends, nSends, nClears, loc, nLoc, geoSupported, serverSessions, returned>>

(***************************************************************************)
(* Sharing the location.                                                   *)
(***************************************************************************)
\* LocationButton is rendered in the last message when that message is a
\* bot message that is not loading, has purchase intent and no stores, and
\* no location is known; it is disabled while isGettingLocation.
LocationButtonShown ==
  LET message == messages[Len(messages)]
  IN /\ message.isBot
     /\ ~message.isLoading
     /\ ~userLocation.known
     /\ message.storesNull
     /\ message.hasPurchaseIntent

LocationButtonEnabled == LocationButtonShown /\ ~isGettingLocation

unsupportedMessage(len) ==
  Msg(len + 1, "Geolocation is not supported by your browser. I can't provide location-based store recommendations.",
      TRUE, FALSE, TRUE, <<>>, TRUE, <<>>, "unsupported", 0)

\* the index of the latest bot message that is not loading, 0 when none
LatestBotMessageIndex(msgs) ==
  LET found == {i \in DOMAIN msgs : msgs[i].isBot /\ ~msgs[i].isLoading}
  IN IF found = {} THEN 0 ELSE CHOOSE i \in found : \A j \in found : j <= i

\* {...messageToUpdate, text: messageToUpdate.text + suffix, isLoading, hasPurchaseIntent: true}
\* an update that puts the new sentence in the place of the text
Overwritten(message, suffix, loading) ==
  [message EXCEPT !.text = suffix, !.isLoading = loading,
                  !.hasPurchaseIntent = TRUE]

Updated(message, suffix, loading) ==
  [message EXCEPT !.text = @ \o suffix, !.isLoading = loading,
                  !.hasPurchaseIntent = TRUE]

\* an update with the stores that leaves the message loading
WithStoresStillLoading(message, list) ==
  [message EXCEPT !.isLoading = TRUE, !.stores = list, !.storesNull = FALSE,
                  !.hasPurchaseIntent = TRUE]

\* {...messageToUpdate, text, isLoading: false, stores: nearbyStores, hasPurchaseIntent: true}
WithStores(message, list) ==
  [message EXCEPT !.isLoading = FALSE, !.stores = list, !.storesNull = FALSE,
                  !.hasPurchaseIntent = TRUE]

\* getUserLocation up to navigator.geolocation.getCurrentPosition
LocClick ==
  /\ LocationButtonEnabled
  /\ nLoc < MaxLoc
  /\ nLoc' = nLoc + 1
  /\ IF ~geoSupported
     THEN /\ messages' = Append(messages, unsupportedMessage(Len(messages)))
          /\ UNCHANGED <<isGettingLocation, loc>>
     ELSE LET index == LatestBotMessageIndex(messages)
          IN IF index = 0
             THEN UNCHANGED <<messages, isGettingLocation, loc>>
             ELSE /\ messages' = [messages EXCEPT ![index] =
                       Updated(@, "\n\nSearching for nearby stores...", TRUE)]
                  /\ isGettingLocation' = TRUE
                  /\ loc' = [IdleLoc EXCEPT !.pc = "geo", !.snapshot = messages,
                                            !.index = index]
  /\ UNCHANGED <<input, isLoading, sessionId, userLocation, sends, nSends, clears,
                 nClears, geoSupported, serverSessions, returned>>

\* the success callback up to its await: the location is stored, the product
\* is looked for in the messages of the closure, findNearbyStores is called
GeoSuccess(position) ==
  /\ loc.pc = "geo"
  /\ userLocation' = position
  /\ loc' = [loc EXCEPT !.pc = "stores", !.location = position,
       !.productName = ProductOfMessages(loc.snapshot, Len(loc.snapshot))]
  /\ UNCHANGED <<messages, input, isLoading, sessionId, isGettingLocation, sends,
                 nSends, clears, nClears, nLoc, geoSupported, serverSessions, returned>>

\* a widget that words an empty list like a failure of the store service
NoStoresAsTrouble(productName) ==
  "\n\nI had trouble finding nearby stores. Please try again later."

NoStoresText(productName) ==
  "\n\nI couldn't find any nearby stores that carry "
    \o (IF productName # Null THEN productName ELSE "Nestle products")
    \o " within a reasonable distance. You can still purchase online through retailers like Amazon."

StoresTroubleText == "\n\nI had trouble finding nearby stores. Please try again later."

\* findNearbyStores of the location flow resolved
LocStoresOk(list) ==
  /\ loc.pc = "stores"
  /\ messages' = [loc.snapshot EXCEPT ![loc.index] =
       IF Len(list) > 0 THEN WithStores(@, list)
       ELSE Updated(@, NoStoresText(loc.productName), FALSE)]
  /\ isGettingLocation' = FALSE
  /\ loc' = [IdleLoc EXCEPT !.result = IF Len(list) > 0 THEN "found" ELSE "empty"]
  /\ UNCHANGED <<input, isLoading, sessionId, userLocation, sends, nSends, clears,
                 nClears, nLoc, geoSupported, serverSessions, returned>>

\* findNearbyStores of the location flow rejected
LocStoresFail ==
  /\ loc.pc = "stores"
  /\ messages' = [loc.snapshot EXCEPT ![loc.index] =
       Updated(@, StoresTroubleText, FALSE)]
  /\ isGettingLocation' = FALSE
  /\ loc' = [IdleLoc EXCEPT !.result = "failed"]
  /\ UNCHANGED <<input, isLoading, sessionId, userLocation, sends, nSends, clears,
                 nClears, nLoc, geoSupported, serverSessions, returned>>

\* error.code of the error callback; the model's browser reports two of them
GeoErrorCodes == {"PERMISSION_DENIED", "TIMEOUT"}

GeoErrorText(code) ==
  "I couldn't access your location. " \o
    (CASE code = "PERMISSION_DENIED" -> "You denied permission to access your location."
       [] code = "POSITION_UNAVAILABLE" -> "Location information is unavailable."
       [] code = "TIMEOUT" -> "The request to get your location timed out."
       [] OTHER -> "An unknown error occurred.")

\* the error callback of getCurrentPosition
GeoError(code) ==
  /\ loc.pc = "geo"
  /\ isGettingLocation' = FALSE
  /\ messages' = [loc.snapshot EXCEPT ![loc.index] =
       Updated(@, "\n\n" \o GeoErrorText(code), FALSE)]
  /\ loc' = [IdleLoc EXCEPT !.result = "geoError"]
  /\ UNCHANGED <<input, isLoading, sessionId, userLocation, sends, nSends, clears,
                 nClears, nLoc, geoSupported, serverSessions, returned>>

(***************************************************************************)
(* The retrieval orchestrator behind POST /api/chat: one turn goes         *)
(*   START -> GRAPH_LOOKUP -> (hit: MERGE | miss: VECTOR_LOOKUP) -> MERGE  *)
(*         -> (STORE_LOOKUP) -> SYNTHESIZE -> DONE | FAILED                *)
(* with every external call wrapped by the retry layer.                    *)
(***************************************************************************)
MaxTurns == 2

VARIABLES
  ostate,      \* the state of the turn
  oattempt,    \* the retries made so far of the call that is running
  ointent,     \* IntentSignal.has_purchase_intent of the turn
  olocation,   \* a location is known for the session
  ostoreData,  \* the synthesis context includes store data already
  ograph,      \* outcome of the graph lookup: "none", "hit", "empty", "error"
  ovector,     \* outcome of the vector lookup: "none", "hit", "empty", "error"
  ostores,     \* outcome of the store lookup: "none", "found", "failed"
  ocalls,      \* calls made in this turn, per service
  oturns       \* turns started

orchVars ==
  <<ostate, oattempt, ointent, olocation, ostoreData, ograph, ovector, ostores,
    ocalls, oturns>>

NoCalls == [graph |-> 0, vector |-> 0, store |-> 0, generation |-> 0]

OrchInit ==
  /\ ostate = "START"
  /\ oattempt = 0
  /\ ointent = FALSE
  /\ olocation = FALSE
  /\ ostoreData = FALSE
  /\ ograph = "none"
  /\ ovector = "none"
  /\ ostores = "none"
  /\ ocalls = NoCalls
  /\ oturns = 0

\* the retry layer: a transient failure is retried while retries are left
OrchMayRetry(attempt, failure) ==
  failure = "transient" /\ attempt < MAX_RETRY_ATTEMPTS

\* an orchestrator that always searches the vector index
AlwaysVector(outcome) == "VECTOR_LOOKUP"

\* an orchestrator that fails the turn when the graph service fails
FailClosed(outcome) ==
  IF outcome = "hit" THEN "MERGE"
  ELSE IF outcome = "error" THEN "FAILED" ELSE "VECTOR_LOOKUP"

\* rule 1 and rule 2: where the turn goes once the graph lookup has ended
AfterGraph(outcome) == IF outcome = "hit" THEN "MERGE" ELSE "VECTOR_LOOKUP"

\* rule 4: the store lookup is entered only with purchase intent, a known
\* location and no store data in the context
AfterMerge(intent, location, storeData) ==
  IF intent /\ location /\ ~storeData THEN "STORE_LOOKUP" ELSE "SYNTHESIZE"

\* an inbound turn: the graph lookup is attempted first
OrchStart(intent, location, storeData) ==
  /\ ostate \in {"START", "DONE", "FAILED"}
  /\ oturns < MaxTurns
  /\ oturns' = oturns + 1
  /\ ostate' = "GRAPH_LOOKUP"
  /\ oattempt' = 0
  /\ ointent' = intent
  /\ olocation' = location
  /\ ostoreData' = storeData
  /\ ograph' = "none"
  /\ ovector' = "none"
  /\ ostores' = "none"
  /\ ocalls' = [NoCalls EXCEPT !.graph = 1]

\* the call the state `to` starts with, if any
CallOf(to) ==
  CASE to = "VECTOR_LOOKUP" -> "vector"
    [] to = "STORE_LOOKUP" -> "store"
    [] to = "SYNTHESIZE" -> "generation"
    [] OTHER -> "none"

Enter(to) ==
  /\ ostate' = to
  /\ oattempt' = 0
  /\ ocalls' = IF CallOf(to) = "none" THEN ocalls
               ELSE [ocalls EXCEPT ![CallOf(to)] = @ + 1]

\* the graph query answered: evidence, or Empty
GraphAnswer(outcome) ==
  /\ ostate = "GRAPH_LOOKUP"
  /\ ograph' = outcome
  /\ Enter(AfterGraph(outcome))
  /\ UNCHANGED <<ointent, olocation, ostoreData, ovector, ostores, oturns>>

\* the graph query failed: retried, or treated as an empty result
GraphFailure(failure) ==
  /\ ostate = "GRAPH_LOOKUP"
  /\ IF OrchMayRetry(oattempt, failure)
     THEN /\ oattempt' = oattempt + 1
          /\ ocalls' = [ocalls EXCEPT !.graph = @ + 1]
          /\ UNCHANGED <<ostate, ograph>>
     ELSE /\ ograph' = "error"
          /\ Enter(AfterGraph("error"))
  /\ UNCHANGED <<ointent, olocation, ostoreData, ovector, ostores, oturns>>

\* the vector search answered: snippets, or none
VectorAnswer(outcome) ==
  /\ ostate = "VECTOR_LOOKUP"
  /\ ovector' = outcome
  /\ Enter("MERGE")
  /\ UNCHANGED <<ointent, olocation, ostoreData, ograph, ostores, oturns>>

\* the vector search failed: retried, or converted to "no evidence"
VectorFailure(failure) ==
  /\ ostate = "VECTOR_LOOKUP"
  /\ IF OrchMayRetry(oattempt, failure)
     THEN /\ oattempt' = oattempt + 1
          /\ ocalls' = [ocalls EXCEPT !.vector = @ + 1]
          /\ UNCHANGED <<ostate, ovector>>
     ELSE /\ ovector' = "error"
          /\ Enter("MERGE")
  /\ UNCHANGED <<ointent, olocation, ostoreData, ograph, ostores, oturns>>

\* the evidence is merged into the synthesis context
Merge ==
  /\ ostate = "MERGE"
  /\ Enter(AfterMerge(ointent, olocation, ostoreData))
  /\ UNCHANGED <<ointent, olocation, ostoreData, ograph, ovector, ostores, oturns>>

\* the store locator answered or failed: the turn goes on either way
StoreResult(outcome) ==
  /\ ostate = "STORE_LOOKUP"
  /\ ostores' = outcome
  /\ Enter("SYNTHESIZE")
  /\ UNCHANGED <<ointent, olocation, ostoreData, ograph, ovector, oturns>>

\* the generation service answered
SynthesisDone ==
  /\ ostate = "SYNTHESIZE"
  /\ Enter("DONE")
  /\ UNCHANGED <<ointent, olocation, ostoreData, ograph, ovector, ostores, oturns>>

\* the generation service failed: retried, or the turn fails with an apology
SynthesisFailure(failure) ==
  /\ ostate = "SYNTHESIZE"
  /\ IF OrchMayRetry(oattempt, failure)
     THEN /\ oattempt' = oattempt + 1
          /\ ocalls' = [ocalls EXCEPT !.generation = @ + 1]
          /\ UNCHANGED ostate
     ELSE Enter("FAILED")
  /\ UNCHANGED <<ointent, olocation, ostoreData, ograph, ovector, ostores, oturns>>

Failures == {"transient", "permanent"}

(***************************************************************************)
(* checkPurchaseIntent and the product name extraction of                  *)
(* handleSendMessage, applied to one question and one answer at a time.    *)
(***************************************************************************)
VARIABLES
  question,   \* the text the user sent
  answer,     \* response.data.response
  ipc,        \* "start", "asked", "classified", "extracted"
  hasIntent,  \* what checkPurchaseIntent returned
  product     \* productName after the extraction

intentVars == <<question, answer, ipc, hasIntent, product>>

QuestionStarts ==
  {"Where can I buy ", "where can we find ", "I want to purchase ", "What is in ",
   "Which shop has ", "Where is it sold: ", "Tell me about ", "how could we get "}

QuestionObjects ==
  {"KitKat", "kit kat", "it", "dark chocolate", "Nescafe", "San Pellegrino water",
   "a Coffee Crisp"}

QuestionEnds == {"?", " near me?"}

Questions ==
  {a \o b \o c : a \in QuestionStarts, b \in QuestionObjects, c \in QuestionEnds}
    \cup {"What's the cocoa content of dark chocolate?"}

Answers ==
  {"", "Here is what I found.", "KitKat is sold in most grocery stores.",
   "Nescafe and Smarties are sold at most grocery stores."}

IntentInit ==
  /\ question = ""
  /\ answer = ""
  /\ ipc = "start"
  /\ hasIntent = FALSE
  /\ product = Null

\* the user sends a question, the chat endpoint answers it
Ask(q, a) ==
  /\ ipc = "start"
  /\ question' = q
  /\ answer' = a
  /\ ipc' = "asked"
  /\ UNCHANGED <<hasIntent, product>>

\* const hasPurchaseIntent = checkPurchaseIntent(input)
Classify ==
  /\ ipc = "asked"
  /\ hasIntent' = checkPurchaseIntent(question)
  /\ ipc' = "classified"
  /\ UNCHANGED <<question, answer, product>>

\* the extraction of the product name, made when a store lookup is wanted
Extract ==
  /\ ipc = "classified"
  /\ hasIntent
  /\ product' = ExtractProduct(question, answer)
  /\ ipc' = "extracted"
  /\ UNCHANGED <<question, answer, hasIntent>>

\* the turn is over
NextQuestion ==
  /\ \/ ipc = "extracted"
     \/ ipc = "classified" /\ ~hasIntent
  /\ question' = ""
  /\ answer' = ""
  /\ ipc' = "start"
  /\ hasIntent' = FALSE
  /\ product' = Null

(***************************************************************************)
(* The view of the widget: open or closed, compact or expanded, and the    *)
(* font size of the messages.  The buttons are rendered when the chat is   *)
(* open.                                                                   *)
(***************************************************************************)
VARIABLES
  isChatOpen,   \* useState(false) of App, the prop isOpen of ChatBot
  isExpanded,   \* useState(false)
  fontSize,     \* useState(14)
  lastClick     \* the handler that ran last

viewVars == <<isChatOpen, isExpanded, fontSize, lastClick>>

minFontSize == 12

maxFontSize(expanded) == IF expanded THEN 22 ELSE 18

ViewInit ==
  /\ isChatOpen = FALSE
  /\ isExpanded = FALSE
  /\ fontSize = 14
  /\ lastClick = "none"

\* toggleChat of App: setIsChatOpen(!isChatOpen)
toggleChat ==
  /\ isChatOpen' = ~isChatOpen
  /\ lastClick' = "toggleChat"
  /\ UNCHANGED <<isExpanded, fontSize>>

\* toggleExpand: setIsExpanded(!isExpanded)
toggleExpand ==
  /\ isChatOpen
  /\ isExpanded' = ~isExpanded
  /\ lastClick' = "toggleExpand"
  /\ UNCHANGED <<isChatOpen, fontSize>>

\* increaseFontSize
increaseFontSize ==
  /\ isChatOpen
  /\ fontSize' = IF fontSize < maxFontSize(isExpanded) THEN fontSize + 1 ELSE fontSize
  /\ lastClick' = "increaseFontSize"
  /\ UNCHANGED <<isChatOpen, isExpanded>>

\* decreaseFontSize
decreaseFontSize ==
  /\ isChatOpen
  /\ fontSize' = IF fontSize > minFontSize THEN fontSize - 1 ELSE fontSize
  /\ lastClick' = "decreaseFontSize"
  /\ UNCHANGED <<isChatOpen, isExpanded>>

(***************************************************************************)
(* The knowledge graph manager.  The graph itself lives behind the graph   *)
(* API: graphNodes and graphRels are what the API holds, nodes and         *)
(* relationships are the lists the component last fetched.  Each request   *)
(* resolves or rejects; a rejected request has changed nothing.  The       *)
(* model follows the handlers of the nodes, the update of a relationship   *)
(* and the custom query.                                                   *)
(***************************************************************************)
MaxEdits == 3     \* bound on the handlers the user starts

\* useState of nodeForm, and the form after a reset
emptyNodeForm == [title |-> "", content |-> "", url |-> "", type |-> "Entity"]

\* useState of relationshipForm, and the form after a reset
emptyRelationshipForm == [source_url |-> "", target_url |-> "", rel_type |-> "MENTIONS"]

\* useState of customQuery
customQuery == "MATCH (n) RETURN n LIMIT 10"

\* title.replace(/\s+/g, '')
removeWhitespace(str) ==
  MapChars(LAMBDA c : IF c \in WhiteSpace THEN "" ELSE c, str, 1, Len(str))

\* the url handleNodeSubmit sends for a form
submittedUrl(form) ==
  IF form.type = "Entity" /\ form.url = ""
  THEN "entity:" \o removeWhitespace(form.title)
  ELSE form.url

\* DELETE /api/graph/node: the node of that url and its relationships go
withoutNode(graph, url) == {n \in graph : n.url # url}

withoutRelsOf(rels, url) ==
  {r \in rels : r.source_url # url /\ r.target_url # url}

\* POST /api/graph/node: the url identifies the node
withNode(graph, node) == withoutNode(graph, node.url) \cup {node}

VARIABLES
  graphNodes,              \* the nodes the graph API holds
  graphRels,               \* the relationships the graph API holds
  nodes,                   \* useState([])
  relationships,           \* useState([])
  nodeForm,                \* useState({title: '', content: '', url: '', type: 'Entity'})
  editingNode,             \* useState(null)
  isEditingNode,           \* useState(false)
  relationshipForm,        \* useState({source_url: '', target_url: '', rel_type: 'MENTIONS'})
  editingRelationship,     \* useState(null)
  isEditingRelationship,   \* useState(false)
  alert,                   \* useState({message: '', type: ''})
  isLoadingGraph,          \* useState(false): isLoading of GraphManager
  nodeFetches,             \* getNodes requests in flight
  relFetches,              \* getRelationships requests in flight
  update,                  \* handleUpdateNode: where it is, and what it captured
  relUpdate,               \* handleUpdateRelationship: the same
  submit,                  \* handleNodeSubmit: the same
  deletion,                \* handleDeleteNode: the same
  query,                   \* handleQuerySubmit: the same
  started,                 \* handlers the user has started
  lastHandler              \* the handler or continuation that ran last

managerVars ==
  <<graphNodes, graphRels, nodes, relationships, nodeForm, editingNode,
    isEditingNode, relationshipForm, editingRelationship,
    isEditingRelationship, alert, isLoadingGraph, nodeFetches, relFetches,
    update, relUpdate, submit, deletion, query, started, lastHandler>>

\* the component after its first render and its mount effect, which calls
\* fetchNodes() and fetchRelationships()
ManagerInit ==
  /\ graphNodes =
       {[title |-> "Kit Kat", content |-> "wafer",
         url |-> "https://www.madewithnestle.ca/kit-kat", type |-> "Page"],
        [title |-> "Nestle", content |-> "", url |-> "entity:Nestle",
         type |-> "Entity"]}
  /\ graphRels =
       {[source_url |-> "https://www.madewithnestle.ca/kit-kat",
         target_url |-> "entity:Nestle", rel_type |-> "MENTIONS"]}
  /\ nodes = {}
  /\ relationships = {}
  /\ nodeForm = emptyNodeForm
  /\ editingNode = [title |-> "", content |-> "", url |-> "", type |-> ""]
  /\ isEditingNode = FALSE
  /\ relationshipForm = emptyRelationshipForm
  /\ editingRelationship = [source_url |-> "", target_url |-> "", rel_type |-> ""]
  /\ isEditingRelationship = FALSE
  /\ alert = [message |-> "", type |-> ""]
  /\ isLoadingGraph = TRUE
  /\ nodeFetches = 1
  /\ relFetches = 1
  /\ update = [pc |-> "idle", form |-> emptyNodeForm,
               opened |-> [title |-> "", content |-> "", url |-> "", type |-> ""],
               deleted |-> FALSE, result |-> "none"]
  /\ relUpdate = [pc |-> "idle", form |-> emptyRelationshipForm,
                  original |-> [source_url |-> "", target_url |-> "", rel_type |-> ""],
                  deleted |-> FALSE, result |-> "none"]
  /\ submit = [pc |-> "idle", formData |-> emptyNodeForm]
  /\ deletion = [pc |-> "idle", url |-> ""]
  /\ query = "idle"
  /\ started = 0
  /\ lastHandler = "mount"

\* the requests of the graph API that have neither resolved nor rejected
InFlight ==
  nodeFetches + relFetches
  + (IF update.pc = "idle" THEN 0 ELSE 1)
  + (IF relUpdate.pc = "idle" THEN 0 ELSE 1)
  + (IF submit.pc = "idle" THEN 0 ELSE 1)
  + (IF deletion.pc = "idle" THEN 0 ELSE 1)
  + (IF query = "idle" THEN 0 ELSE 1)

\* fetchNodes, after its await: setNodes(response.data) in the try, the
\* alert in the catch, setIsLoading(false) in both
fetchNodes(ok) ==
  /\ nodeFetches > 0
  /\ nodeFetches' = nodeFetches - 1
  /\ nodes' = IF ok THEN graphNodes ELSE nodes
  /\ alert' = IF ok THEN alert
              ELSE [message |-> "Failed to fetch nodes", type |-> "error"]
  /\ isLoadingGraph' = FALSE
  /\ lastHandler' = "fetchNodes"
  /\ UNCHANGED <<graphNodes, graphRels, relationships, nodeForm, editingNode,
                 isEditingNode, relationshipForm, editingRelationship,
                 isEditingRelationship, relFetches, update, relUpdate, submit,
                 deletion, query, started>>

\* fetchRelationships, after its await
fetchRelationships(ok) ==
  /\ relFetches > 0
  /\ relFetches' = relFetches - 1
  /\ relationships' = IF ok THEN graphRels ELSE relationships
  /\ alert' = IF ok THEN alert
              ELSE [message |-> "Failed to fetch relationships", type |-> "error"]
  /\ isLoadingGraph' = FALSE
  /\ lastHandler' = "fetchRelationships"
  /\ UNCHANGED <<graphNodes, graphRels, nodes, nodeForm, editingNode,
                 isEditingNode, relationshipForm, editingRelationship,
                 isEditingRelationship, nodeFetches, update, relUpdate,
                 submit, deletion, query, started>>

\* handleNodeInputChange: the inputs of the Add New Node form and of the
\* Edit Node modal are bound to the same nodeForm.  The url input of the
\* modal is read-only; the one of the form under the modal is not, and the
\* modal takes no focus away from it.
handleNodeInputChange(name, value) ==
  /\ nodeForm[name] # value
  /\ nodeForm' = [nodeForm EXCEPT ![name] = value]
  /\ started' = started + 1
  /\ lastHandler' = "handleNodeInputChange"
  /\ UNCHANGED <<graphNodes, graphRels, nodes, relationships, editingNode,
                 isEditingNode, relationshipForm, editingRelationship,
                 isEditingRelationship, alert, isLoadingGraph, nodeFetches,
                 relFetches, update, relUpdate, submit, deletion, query>>

\* handleEditNode(node), from the Edit button of a row (disabled={isLoading})
handleEditNode(node) ==
  /\ ~isLoadingGraph
  /\ node \in nodes
  /\ editingNode' = node
  /\ nodeForm' = [title |-> node.title, content |-> node.content,
                  url |-> node.url, type |-> node.type]
  /\ isEditingNode' = TRUE
  /\ started' = started + 1
  /\ lastHandler' = "handleEditNode"
  /\ UNCHANGED <<graphNodes, graphRels, nodes, relationships,
                 relationshipForm, editingRelationship, isEditingRelationship,
                 alert, isLoadingGraph, nodeFetches, relFetches, update,
                 relUpdate, submit, deletion, query>>

\* handleCloseEditNodeModal, from the close button of the modal
handleCloseEditNodeModal ==
  /\ isEditingNode
  /\ isEditingNode' = FALSE
  /\ editingNode' = [title |-> "", content |-> "", url |-> "", type |-> ""]
  /\ nodeForm' = emptyNodeForm
  /\ started' = started + 1
  /\ lastHandler' = "handleCloseEditNodeModal"
  /\ UNCHANGED <<graphNodes, graphRels, nodes, relationships,
                 relationshipForm, editingRelationship, isEditingRelationship,
                 alert, isLoadingGraph, nodeFetches, relFetches, update,
                 relUpdate, submit, deletion, query>>

\* the validation handleUpdateNode and handleNodeSubmit share: the message
\* of the alert, or Null for a form that passes
validationError(form) ==
  IF form.title = "" THEN "Title is required"
  ELSE IF form.type = "Page" /\ (form.content = "" \/ form.url = "")
  THEN "Content and URL are required for Page type nodes"
  ELSE Null

\* handleUpdateNode, up to its first await: deleteNode(nodeForm.url) is sent
handleUpdateNode ==
  /\ isEditingNode
  /\ ~isLoadingGraph
  /\ update.pc = "idle"
  /\ started' = started + 1
  /\ lastHandler' = "handleUpdateNode"
  /\ IF validationError(nodeForm) # Null
     THEN /\ alert' = [message |-> validationError(nodeForm), type |-> "error"]
          /\ UNCHANGED <<isLoadingGraph, update>>
     ELSE /\ isLoadingGraph' = TRUE
          /\ update' = [pc |-> "awaitDelete", form |-> nodeForm,
                        opened |-> editingNode, deleted |-> FALSE,
                        result |-> "none"]
          /\ UNCHANGED alert
  /\ UNCHANGED <<graphNodes, graphRels, nodes, relationships, nodeForm,
                 editingNode, isEditingNode, relationshipForm,
                 editingRelationship, isEditingRelationship, nodeFetches,
                 relFetches, relUpdate, submit, deletion, query>>

\* deleteNode resolves: addNode(nodeForm) is sent
UpdateDeleteOk ==
  /\ update.pc = "awaitDelete"
  /\ graphNodes' = withoutNode(graphNodes, update.form.url)
  /\ graphRels' = withoutRelsOf(graphRels, update.form.url)
  /\ update' = [update EXCEPT !.pc = "awaitAdd", !.deleted = TRUE]
  /\ lastHandler' = "handleUpdateNode"
  /\ UNCHANGED <<nodes, relationships, nodeForm, editingNode, isEditingNode,
                 relationshipForm, editingRelationship, isEditingRelationship,
                 alert, isLoadingGraph, nodeFetches, relFetches, relUpdate,
                 submit, deletion, query, started>>

\* deleteNode or addNode rejects: the catch of handleUpdateNode
UpdateFail ==
  /\ update.pc \in {"awaitDelete", "awaitAdd"}
  /\ alert' = [message |-> "Failed to update node", type |-> "error"]
  /\ isLoadingGraph' = FALSE
  /\ update' = [update EXCEPT !.pc = "idle", !.result = "failed"]
  /\ lastHandler' = "handleUpdateNode"
  /\ UNCHANGED <<graphNodes, graphRels, nodes, relationships, nodeForm,
                 editingNode, isEditingNode, relationshipForm,
                 editingRelationship, isEditingRelationship, nodeFetches,
                 relFetches, relUpdate, submit, deletion, query, started>>

\* addNode resolves: the modal closes, both lists are fetched again
UpdateAddOk ==
  /\ update.pc = "awaitAdd"
  /\ graphNodes' = withNode(graphNodes, update.form)
  /\ alert' = [message |-> "Node updated successfully", type |-> "success"]
  /\ isEditingNode' = FALSE
  /\ editingNode' = [title |-> "", content |-> "", url |-> "", type |-> ""]
  /\ nodeForm' = emptyNodeForm
  /\ nodeFetches' = nodeFetches + 1
  /\ relFetches' = relFetches + 1
  /\ isLoadingGraph' = FALSE
  /\ update' = [update EXCEPT !.pc = "idle", !.result = "updated"]
  /\ lastHandler' = "handleUpdateNode"
  /\ UNCHANGED <<graphRels, nodes, relationships, relationshipForm,
                 editingRelationship, isEditingRelationship, relUpdate,
                 submit, deletion, query, started>>

\* handleNodeSubmit, up to its await: addNode(formData) is sent
handleNodeSubmit ==
  /\ ~isLoadingGraph
  /\ submit.pc = "idle"
  /\ started' = started + 1
  /\ lastHandler' = "handleNodeSubmit"
  /\ IF validationError(nodeForm) # Null
     THEN /\ alert' = [message |-> validationError(nodeForm), type |-> "error"]
          /\ UNCHANGED <<isLoadingGraph, submit>>
     ELSE /\ isLoadingGraph' = TRUE
          /\ submit' = [pc |-> "awaitAdd",
                        formData |-> [nodeForm EXCEPT !.url = submittedUrl(nodeForm)]]
          /\ UNCHANGED alert
  /\ UNCHANGED <<graphNodes, graphRels, nodes, relationships, nodeForm,
                 editingNode, isEditingNode, relationshipForm,
                 editingRelationship, isEditingRelationship, nodeFetches,
                 relFetches, update, relUpdate, deletion, query>>

\* addNode resolves: the form is reset and the nodes are fetched again
SubmitOk ==
  /\ submit.pc = "awaitAdd"
  /\ graphNodes' = withNode(graphNodes, submit.formData)
  /\ alert' = [message |-> "Node added successfully", type |-> "success"]
  /\ nodeForm' = emptyNodeForm
  /\ nodeFetches' = nodeFetches + 1
  /\ isLoadingGraph' = FALSE
  /\ submit' = [submit EXCEPT !.pc = "idle"]
  /\ lastHandler' = "handleNodeSubmit"
  /\ UNCHANGED <<graphRels, nodes, relationships, editingNode, isEditingNode,
                 relationshipForm, editingRelationship, isEditingRelationship,
                 relFetches, update, relUpdate, deletion, query, started>>

\* addNode rejects: the catch of handleNodeSubmit
SubmitFail ==
  /\ submit.pc = "awaitAdd"
  /\ alert' = [message |-> "Failed to add node", type |-> "error"]
  /\ isLoadingGraph' = FALSE
  /\ submit' = [submit EXCEPT !.pc = "idle"]
  /\ lastHandler' = "handleNodeSubmit"
  /\ UNCHANGED <<graphNodes, graphRels, nodes, relationships, nodeForm,
                 editingNode, isEditingNode, relationshipForm,
                 editingRelationship, isEditingRelationship, nodeFetches,
                 relFetches, update, relUpdate, deletion, query, started>>

\* handleDeleteNode(url), from the Delete button of a row
\* (disabled={isLoading}); nothing happens unless the user confirms
handleDeleteNode(url, confirmed) ==
  /\ ~isLoadingGraph
  /\ deletion.pc = "idle"
  /\ \E node \in nodes : node.url = url
  /\ started' = started + 1
  /\ lastHandler' = "handleDeleteNode"
  /\ IF confirmed
     THEN /\ isLoadingGraph' = TRUE
          /\ deletion' = [pc |-> "awaitDelete", url |-> url]
     ELSE UNCHANGED <<isLoadingGraph, deletion>>
  /\ UNCHANGED <<graphNodes, graphRels, nodes, relationships, nodeForm,
                 editingNode, isEditingNode, relationshipForm,
                 editingRelationship, isEditingRelationship, alert,
                 nodeFetches, relFetches, update, relUpdate, submit, query>>

\* deleteNode resolves: both lists are fetched again
DeleteOk ==
  /\ deletion.pc = "awaitDelete"
  /\ graphNodes' = withoutNode(graphNodes, deletion.url)
  /\ graphRels' = withoutRelsOf(graphRels, deletion.url)
  /\ alert' = [message |-> "Node deleted successfully", type |-> "success"]
  /\ nodeFetches' = nodeFetches + 1
  /\ relFetches' = relFetches + 1
  /\ isLoadingGraph' = FALSE
  /\ deletion' = [pc |-> "idle", url |-> ""]
  /\ lastHandler' = "handleDeleteNode"
  /\ UNCHANGED <<nodes, relationships, nodeForm, editingNode, isEditingNode,
                 relationshipForm, editingRelationship, isEditingRelationship,
                 update, relUpdate, submit, query, started>>

\* deleteNode rejects: the catch of handleDeleteNode
DeleteFail ==
  /\ deletion.pc = "awaitDelete"
  /\ alert' = [message |-> "Failed to delete node", type |-> "error"]
  /\ isLoadingGraph' = FALSE
  /\ deletion' = [pc |-> "idle", url |-> ""]
  /\ lastHandler' = "handleDeleteNode"
  /\ UNCHANGED <<graphNodes, graphRels, nodes, relationships, nodeForm,
                 editingNode, isEditingNode, relationshipForm,
                 editingRelationship, isEditingRelationship, nodeFetches,
                 relFetches, update, relUpdate, submit, query, started>>

\* handleRelationshipInputChange
handleRelationshipInputChange(name, value) ==
  /\ isEditingRelationship
  /\ relationshipForm[name] # value
  /\ relationshipForm' = [relationshipForm EXCEPT ![name] = value]
  /\ started' = started + 1
  /\ lastHandler' = "handleRelationshipInputChange"
  /\ UNCHANGED <<graphNodes, graphRels, nodes, relationships, nodeForm,
                 editingNode, isEditingNode, editingRelationship,
                 isEditingRelationship, alert, isLoadingGraph, nodeFetches,
                 relFetches, update, relUpdate, submit, deletion, query>>

\* handleEditRelationship(relationship), from the Edit button of a row
handleEditRelationship(relationship) ==
  /\ ~isLoadingGraph
  /\ relationship \in relationships
  /\ editingRelationship' = relationship
  /\ relationshipForm' = [source_url |-> relationship.source_url,
                          target_url |-> relationship.target_url,
                          rel_type |-> relationship.rel_type]
  /\ isEditingRelationship' = TRUE
  /\ started' = started + 1
  /\ lastHandler' = "handleEditRelationship"
  /\ UNCHANGED <<graphNodes, graphRels, nodes, relationships, nodeForm,
                 editingNode, isEditingNode, alert, isLoadingGraph,
                 nodeFetches, relFetches, update, relUpdate, submit, deletion,
                 query>>

\* handleCloseEditRelationshipModal
handleCloseEditRelationshipModal ==
  /\ isEditingRelationship
  /\ isEditingRelationship' = FALSE
  /\ editingRelationship' = [source_url |-> "", target_url |-> "", rel_type |-> ""]
  /\ relationshipForm' = emptyRelationshipForm
  /\ started' = started + 1
  /\ lastHandler' = "handleCloseEditRelationshipModal"
  /\ UNCHANGED <<graphNodes, graphRels, nodes, relationships, nodeForm,
                 editingNode, isEditingNode, alert, isLoadingGraph,
                 nodeFetches, relFetches, update, relUpdate, submit, deletion,
                 query>>

\* handleUpdateRelationship, up to its first await:
\* deleteRelationship(originalData) is sent
handleUpdateRelationship ==
  /\ isEditingRelationship
  /\ ~isLoadingGraph
  /\ relUpdate.pc = "idle"
  /\ started' = started + 1
  /\ lastHandler' = "handleUpdateRelationship"
  /\ IF \/ relationshipForm.source_url = ""
        \/ relationshipForm.target_url = ""
        \/ relationshipForm.rel_type = ""
     THEN /\ alert' = [message |-> "Please fill in all required fields", type |-> "error"]
          /\ UNCHANGED <<isLoadingGraph, relUpdate>>
     ELSE /\ isLoadingGraph' = TRUE
          /\ relUpdate' = [pc |-> "awaitDelete", form |-> relationshipForm,
                           original |-> editingRelationship, deleted |-> FALSE,
                           result |-> "none"]
          /\ UNCHANGED alert
  /\ UNCHANGED <<graphNodes, graphRels, nodes, relationships, nodeForm,
                 editingNode, isEditingNode, relationshipForm,
                 editingRelationship, isEditingRelationship, nodeFetches,
                 relFetches, update, submit, deletion, query>>

\* deleteRelationship resolves: addRelationship(relationshipForm) is sent
RelDeleteOk ==
  /\ relUpdate.pc = "awaitDelete"
  /\ graphRels' = graphRels \ {relUpdate.original}
  /\ relUpdate' = [relUpdate EXCEPT !.pc = "awaitAdd", !.deleted = TRUE]
  /\ lastHandler' = "handleUpdateRelationship"
  /\ UNCHANGED <<graphNodes, nodes, relationships, nodeForm, editingNode,
                 isEditingNode, relationshipForm, editingRelationship,
                 isEditingRelationship, alert, isLoadingGraph, nodeFetches,
                 relFetches, update, submit, deletion, query, started>>

\* deleteRelationship or addRelationship rejects: the catch
RelUpdateFail ==
  /\ relUpdate.pc \in {"awaitDelete", "awaitAdd"}
  /\ alert' = [message |-> "Failed to update relationship", type |-> "error"]
  /\ isLoadingGraph' = FALSE
  /\ relUpdate' = [relUpdate EXCEPT !.pc = "idle", !.result = "failed"]
  /\ lastHandler' = "handleUpdateRelationship"
  /\ UNCHANGED <<graphNodes, graphRels, nodes, relationships, nodeForm,
                 editingNode, isEditingNode, relationshipForm,
                 editingRelationship, isEditingRelationship, nodeFetches,
                 relFetches, update, submit, deletion, query, started>>

\* addRelationship resolves: the modal closes, the relationships are
\* fetched again
RelAddOk ==
  /\ relUpdate.pc = "awaitAdd"
  /\ graphRels' = graphRels \cup {relUpdate.form}
  /\ alert' = [message |-> "Relationship updated successfully", type |-> "success"]
  /\ isEditingRelationship' = FALSE
  /\ editingRelationship' = [source_url |-> "", target_url |-> "", rel_type |-> ""]
  /\ relationshipForm' = emptyRelationshipForm
  /\ relFetches' = relFetches + 1
  /\ isLoadingGraph' = FALSE
  /\ relUpdate' = [relUpdate EXCEPT !.pc = "idle", !.result = "updated"]
  /\ lastHandler' = "handleUpdateRelationship"
  /\ UNCHANGED <<graphNodes, nodes, relationships, nodeForm, editingNode,
                 isEditingNode, nodeFetches, update, submit, deletion, query,
                 started>>

\* handleQuerySubmit, up to its await: runCustomQuery(customQuery) is sent
handleQuerySubmit ==
  /\ ~isLoadingGraph
  /\ query = "idle"
  /\ started' = started + 1
  /\ lastHandler' = "handleQuerySubmit"
  /\ IF customQuery = ""
     THEN /\ alert' = [message |-> "Please enter a Cypher query", type |-> "error"]
          /\ UNCHANGED <<isLoadingGraph, query>>
     ELSE /\ isLoadingGraph' = TRUE
          /\ query' = "awaitQuery"
          /\ UNCHANGED alert
  /\ UNCHANGED <<graphNodes, graphRels, nodes, relationships, nodeForm,
                 editingNode, isEditingNode, relationshipForm,
                 editingRelationship, isEditingRelationship, nodeFetches,
                 relFetches, update, relUpdate, submit, deletion>>

\* runCustomQuery resolves or rejects
QueryDone(ok) ==
  /\ query = "awaitQuery"
  /\ alert' = IF ok THEN [message |-> "Query executed successfully", type |-> "success"]
              ELSE [message |-> "Failed to execute query", type |-> "error"]
  /\ isLoadingGraph' = FALSE
  /\ query' = "idle"
  /\ lastHandler' = "handleQuerySubmit"
  /\ UNCHANGED <<graphNodes, graphRels, nodes, relationships, nodeForm,
                 editingNode, isEditingNode, relationshipForm,
                 editingRelationship, isEditingRelationship, nodeFetches,
                 relFetches, update, relUpdate, submit, deletion, started>>

(***************************************************************************)
(* The widget.                                                             *)
(***************************************************************************)
vars == <<chatVars, orchVars, intentVars, viewVars, managerVars>>

Init == ChatInit /\ OrchInit /\ IntentInit /\ ViewInit /\ ManagerInit

\* the chat widget, with every service as its environment
Next ==
  \/ OpsLeft /\ (\E text \in Inputs : SetInput(text)) /\ UNCHANGED <<orchVars, intentVars, viewVars, managerVars>>
  \/ SendBlank /\ UNCHANGED <<orchVars, intentVars, viewVars, managerVars>>
  \/ OpsLeft /\ SendStart /\ UNCHANGED <<orchVars, intentVars, viewVars, managerVars>>
  \/ (\E s \in 1..MaxSends : \E r \in ChatResponses : ChatOk(s, r))
       /\ UNCHANGED <<orchVars, intentVars, viewVars, managerVars>>
  \/ (\E s \in 1..MaxSends : \E list \in StoreLists : SendStoresOk(s, list))
       /\ UNCHANGED <<orchVars, intentVars, viewVars, managerVars>>
  \/ (\E s \in 1..MaxSends : SendStoresFail(s)) /\ UNCHANGED <<orchVars, intentVars, viewVars, managerVars>>
  \/ (\E s \in 1..MaxSends : \E error \in Errors \cup {"sessionNotFound"} :
        ChatFail(s, error))
       /\ UNCHANGED <<orchVars, intentVars, viewVars, managerVars>>
  \/ (\E s \in 1..MaxSends : BackoffDone(s)) /\ UNCHANGED <<orchVars, intentVars, viewVars, managerVars>>
  \/ ClearNoSession /\ UNCHANGED <<orchVars, intentVars, viewVars, managerVars>>
  \/ OpsLeft /\ ClearStart /\ UNCHANGED <<orchVars, intentVars, viewVars, managerVars>>
  \/ (\E c \in 1..MaxClears : ClearServed(c)) /\ UNCHANGED <<orchVars, intentVars, viewVars, managerVars>>
  \/ (\E c \in 1..MaxClears : ClearLost(c)) /\ UNCHANGED <<orchVars, intentVars, viewVars, managerVars>>
  \/ OpsLeft /\ LocClick /\ UNCHANGED <<orchVars, intentVars, viewVars, managerVars>>
  \/ (\E position \in Locations : GeoSuccess(position)) /\ UNCHANGED <<orchVars, intentVars, viewVars, managerVars>>
  \/ (\E list \in StoreLists : LocStoresOk(list)) /\ UNCHANGED <<orchVars, intentVars, viewVars, managerVars>>
  \/ LocStoresFail /\ UNCHANGED <<orchVars, intentVars, viewVars, managerVars>>
  \/ (\E code \in GeoErrorCodes : GeoError(code)) /\ UNCHANGED <<orchVars, intentVars, viewVars, managerVars>>

Spec == Init /\ [][Next]_vars

\* getCurrentPosition is given timeout: 10000, so a request that gets no
\* position ends in the error callback with the code TIMEOUT
GeoTimedOut ==
  /\ GeoError("TIMEOUT")
  /\ UNCHANGED <<orchVars, intentVars, viewVars, managerVars>>

\* the promise of findNearbyStores of the location flow is settled: a
\* lookup that has not resolved is rejected in the end
LocStoresSettled ==
  /\ LocStoresFail
  /\ UNCHANGED <<orchVars, intentVars, viewVars, managerVars>>

\* The chat widget when the browser calls back once for every geolocation
\* request and the store lookup of the location flow is settled in the end.
LocationSpec == Spec /\ WF_vars(GeoTimedOut) /\ WF_vars(LocStoresSettled)

\* no call of handleSendMessage is under way
NoSendActive ==
  \A s \in 1..MaxSends : sends[s].pc \notin {"awaitChat", "backoff", "awaitStores"}

\* no call of handleClearConversation or of getUserLocation is under way
NoOtherPending ==
  /\ loc.pc = "idle"
  /\ \A c \in 1..MaxClears : clears[c].pc # "await"

\* The chat widget when no send overlaps a clear or a location action: a
\* send starts when none of these is under way, and none of them starts or
\* goes on while a send is under way.  Clears may overlap each other.
QuietNext ==
  \/ (\E text \in Inputs : SetInput(text)) /\ UNCHANGED <<orchVars, intentVars, viewVars, managerVars>>
  \/ SendBlank /\ UNCHANGED <<orchVars, intentVars, viewVars, managerVars>>
  \/ NoOtherPending /\ SendStart /\ UNCHANGED <<orchVars, intentVars, viewVars, managerVars>>
  \/ (\E s \in 1..MaxSends : \E r \in ChatResponses : ChatOk(s, r))
       /\ UNCHANGED <<orchVars, intentVars, viewVars, managerVars>>
  \/ (\E s \in 1..MaxSends : \E list \in StoreLists : SendStoresOk(s, list))
       /\ UNCHANGED <<orchVars, intentVars, viewVars, managerVars>>
  \/ (\E s \in 1..MaxSends : SendStoresFail(s)) /\ UNCHANGED <<orchVars, intentVars, viewVars, managerVars>>
  \/ (\E s \in 1..MaxSends : \E error \in Errors : ChatFail(s, error))
       /\ UNCHANGED <<orchVars, intentVars, viewVars, managerVars>>
  \/ (\E s \in 1..MaxSends : BackoffDone(s)) /\ UNCHANGED <<orchVars, intentVars, viewVars, managerVars>>
  \/ NoSendActive /\ ClearNoSession /\ UNCHANGED <<orchVars, intentVars, viewVars, managerVars>>
  \/ NoSendActive /\ ClearStart /\ UNCHANGED <<orchVars, intentVars, viewVars, managerVars>>
  \/ NoSendActive /\ (\E c \in 1..MaxClears : ClearServed(c))
       /\ UNCHANGED <<orchVars, intentVars, viewVars, managerVars>>
  \/ NoSendActive /\ (\E c \in 1..MaxClears : ClearLost(c))
       /\ UNCHANGED <<orchVars, intentVars, viewVars, managerVars>>
  \/ NoSendActive /\ LocClick /\ UNCHANGED <<orchVars, intentVars, viewVars, managerVars>>
  \/ NoSendActive /\ (\E position \in Locations : GeoSuccess(position))
       /\ UNCHANGED <<orchVars, intentVars, viewVars, managerVars>>
  \/ NoSendActive /\ (\E list \in StoreLists : LocStoresOk(list))
       /\ UNCHANGED <<orchVars, intentVars, viewVars, managerVars>>
  \/ NoSendActive /\ LocStoresFail /\ UNCHANGED <<orchVars, intentVars, viewVars, managerVars>>
  \/ NoSendActive /\ (\E code \in GeoErrorCodes : GeoError(code))
       /\ UNCHANGED <<orchVars, intentVars, viewVars, managerVars>>

QuietSpec == Init /\ [][QuietNext]_vars

\* the orchestrator, turn after turn
OrchStep ==
  \/ (\E intent \in BOOLEAN, location \in BOOLEAN, storeData \in BOOLEAN :
        OrchStart(intent, location, storeData)) /\ UNCHANGED <<chatVars, intentVars, viewVars, managerVars>>
  \/ (\E outcome \in {"hit", "empty"} : GraphAnswer(outcome)) /\ UNCHANGED <<chatVars, intentVars, viewVars, managerVars>>
  \/ (\E failure \in Failures : GraphFailure(failure)) /\ UNCHANGED <<chatVars, intentVars, viewVars, managerVars>>
  \/ (\E outcome \in {"hit", "empty"} : VectorAnswer(outcome)) /\ UNCHANGED <<chatVars, intentVars, viewVars, managerVars>>
  \/ (\E failure \in Failures : VectorFailure(failure)) /\ UNCHANGED <<chatVars, intentVars, viewVars, managerVars>>
  \/ Merge /\ UNCHANGED <<chatVars, intentVars, viewVars, managerVars>>
  \/ (\E outcome \in {"found", "failed"} : StoreResult(outcome)) /\ UNCHANGED <<chatVars, intentVars, viewVars, managerVars>>
  \/ SynthesisDone /\ UNCHANGED <<chatVars, intentVars, viewVars, managerVars>>
  \/ (\E failure \in Failures : SynthesisFailure(failure)) /\ UNCHANGED <<chatVars, intentVars, viewVars, managerVars>>

OrchSpec == Init /\ [][OrchStep]_vars


\* axios.post of sendChatMessage is given timeout: 20000, so a chat call
\* that stays without an answer is rejected with no response received
ChatTimedOut ==
  /\ \E s \in 1..MaxSends : ChatFail(s, "network")
  /\ UNCHANGED <<orchVars, intentVars, viewVars, managerVars>>

\* the timer of a backoff wait fires
BackoffFired ==
  /\ \E s \in 1..MaxSends : BackoffDone(s)
  /\ UNCHANGED <<orchVars, intentVars, viewVars, managerVars>>

\* The chat widget with what its timers guarantee.  axios.post of
\* findNearbyStores is given no timeout (axios then waits without limit),
\* so nothing is guaranteed of a store lookup that is under way.
FairSpec == Spec /\ WF_vars(ChatTimedOut) /\ WF_vars(BackoffFired)

\* the promise of findNearbyStores inside a send is settled: a lookup
\* that has not resolved is rejected in the end
StoresSettled ==
  /\ \E s \in 1..MaxSends : SendStoresFail(s)
  /\ UNCHANGED <<orchVars, intentVars, viewVars, managerVars>>

\* The chat widget when every call it awaits is settled in the end and
\* every timer fires.
SettledSpec ==
  Spec /\ WF_vars(ChatTimedOut) /\ WF_vars(BackoffFired) /\ WF_vars(StoresSettled)

\* the clicks on the buttons of the view
ViewStep ==
  \/ toggleChat /\ UNCHANGED <<chatVars, orchVars, intentVars, managerVars>>
  \/ toggleExpand /\ UNCHANGED <<chatVars, orchVars, intentVars, managerVars>>
  \/ increaseFontSize /\ UNCHANGED <<chatVars, orchVars, intentVars, managerVars>>
  \/ decreaseFontSize /\ UNCHANGED <<chatVars, orchVars, intentVars, managerVars>>

ViewSpec == Init /\ [][ViewStep]_vars

\* the classifier and the extraction, question after question
IntentStep ==
  \/ (\E q \in Questions : \E a \in Answers : Ask(q, a))
       /\ UNCHANGED <<chatVars, orchVars, viewVars, managerVars>>
  \/ Classify /\ UNCHANGED <<chatVars, orchVars, viewVars, managerVars>>
  \/ Extract /\ UNCHANGED <<chatVars, orchVars, viewVars, managerVars>>
  \/ NextQuestion /\ UNCHANGED <<chatVars, orchVars, viewVars, managerVars>>

IntentSpec == Init /\ [][IntentStep]_vars

\* the graph manager, with the graph API as its environment
ManagerStep ==
  \/ (\E ok \in BOOLEAN : fetchNodes(ok)) /\ UNCHANGED <<chatVars, orchVars, intentVars, viewVars>>
  \/ (\E ok \in BOOLEAN : fetchRelationships(ok)) /\ UNCHANGED <<chatVars, orchVars, intentVars, viewVars>>
  \/ started < MaxEdits /\ (\E value \in {"", "Kit Kat"} : handleNodeInputChange("title", value))
       /\ UNCHANGED <<chatVars, orchVars, intentVars, viewVars>>
  \/ started < MaxEdits /\ (\E value \in {"", "wafer"} : handleNodeInputChange("content", value))
       /\ UNCHANGED <<chatVars, orchVars, intentVars, viewVars>>
  \/ started < MaxEdits /\ (\E value \in {"", "https://www.madewithnestle.ca/kit-kat"} : handleNodeInputChange("url", value))
       /\ UNCHANGED <<chatVars, orchVars, intentVars, viewVars>>
  \/ started < MaxEdits /\ (\E value \in {"Entity", "Page", "Product"} : handleNodeInputChange("type", value))
       /\ UNCHANGED <<chatVars, orchVars, intentVars, viewVars>>
  \/ started < MaxEdits /\ (\E node \in nodes : handleEditNode(node))
       /\ UNCHANGED <<chatVars, orchVars, intentVars, viewVars>>
  \/ started < MaxEdits /\ handleCloseEditNodeModal
       /\ UNCHANGED <<chatVars, orchVars, intentVars, viewVars>>
  \/ started < MaxEdits /\ handleUpdateNode /\ UNCHANGED <<chatVars, orchVars, intentVars, viewVars>>
  \/ UpdateDeleteOk /\ UNCHANGED <<chatVars, orchVars, intentVars, viewVars>>
  \/ UpdateFail /\ UNCHANGED <<chatVars, orchVars, intentVars, viewVars>>
  \/ UpdateAddOk /\ UNCHANGED <<chatVars, orchVars, intentVars, viewVars>>
  \/ started < MaxEdits /\ handleNodeSubmit /\ UNCHANGED <<chatVars, orchVars, intentVars, viewVars>>
  \/ SubmitOk /\ UNCHANGED <<chatVars, orchVars, intentVars, viewVars>>
  \/ SubmitFail /\ UNCHANGED <<chatVars, orchVars, intentVars, viewVars>>
  \/ started < MaxEdits /\ (\E node \in nodes : \E confirmed \in BOOLEAN :
                     handleDeleteNode(node.url, confirmed))
       /\ UNCHANGED <<chatVars, orchVars, intentVars, viewVars>>
  \/ DeleteOk /\ UNCHANGED <<chatVars, orchVars, intentVars, viewVars>>
  \/ DeleteFail /\ UNCHANGED <<chatVars, orchVars, intentVars, viewVars>>
  \/ started < MaxEdits /\ (\E value \in {"MENTIONS", "CONTAINS"} : handleRelationshipInputChange("rel_type", value))
       /\ UNCHANGED <<chatVars, orchVars, intentVars, viewVars>>
  \/ started < MaxEdits /\ (\E value \in {""} \cup {n.url : n \in nodes} :
                     handleRelationshipInputChange("target_url", value))
       /\ UNCHANGED <<chatVars, orchVars, intentVars, viewVars>>
  \/ started < MaxEdits /\ (\E relationship \in relationships : handleEditRelationship(relationship))
       /\ UNCHANGED <<chatVars, orchVars, intentVars, viewVars>>
  \/ started < MaxEdits /\ handleCloseEditRelationshipModal
       /\ UNCHANGED <<chatVars, orchVars, intentVars, viewVars>>
  \/ started < MaxEdits /\ handleUpdateRelationship
       /\ UNCHANGED <<chatVars, orchVars, intentVars, viewVars>>
  \/ RelDeleteOk /\ UNCHANGED <<chatVars, orchVars, intentVars, viewVars>>
  \/ RelUpdateFail /\ UNCHANGED <<chatVars, orchVars, intentVars, viewVars>>
  \/ RelAddOk /\ UNCHANGED <<chatVars, orchVars, intentVars, viewVars>>
  \/ started < MaxEdits /\ handleQuerySubmit /\ UNCHANGED <<chatVars, orchVars, intentVars, viewVars>>
  \/ (\E ok \in BOOLEAN : QueryDone(ok)) /\ UNCHANGED <<chatVars, orchVars, intentVars, viewVars>>

ManagerSpec == Init /\ [][ManagerStep]_vars

(***************************************************************************)
(* Properties of the retry loop of handleSendMessage.                      *)
(***************************************************************************)
\* C1: a send whose chat call fails twice and then succeeds has made
\* exactly 3 calls, and has waited 0, 1000 and 2000 ms before them.
RetrySchedule ==
  \A s \in 1..MaxSends :
    sends[s].outcomes = <<"fail", "fail", "ok">> =>
      /\ sends[s].calls = 3
      /\ sends[s].delays = <<0, BaseDelay, 2 * BaseDelay>>

\* a send that failed twice and then succeeded
RetryScheduleWitness ==
  \E s \in 1..MaxSends :
    /\ sends[s].outcomes = <<"fail", "fail", "ok">>
    /\ sends[s].pc = "done"
    /\ sends[s].result = "ok"

\* C2: a chat call that failed with an HTTP 4xx answer is not retried: no
\* backoff wait starts after it.
ClientErrorNotRetried ==
  \A s \in 1..MaxSends :
    sends[s].lastError \in {"http400", "http404"} => sends[s].pc # "backoff"

\* C3: the step that ends a send whose every attempt failed leaves no
\* placeholder of that send in the transcript, adds no message but one bot
\* message at its end, and the text of that message is the fixed apology
\* that belongs to the last error.
FinalFailureShowsOneApology ==
  [][\A s \in 1..MaxSends :
       (sends[s].pc = "awaitChat" /\ sends'[s].result = "failed") =>
         LET error == sends'[s].lastError
             expected == CASE error = "http500" -> ServerErrorText
                           [] error = "http404" -> UnreachableText
                           [] error = "network" -> NetworkErrorText
                           [] OTHER -> TroubleConnecting
             n == Len(messages')
             last == messages'[n]
         IN /\ sends'[s].calls = MAX_RETRY_ATTEMPTS + 1
            /\ \A i \in 1..Len(sends'[s].outcomes) : sends'[s].outcomes[i] = "fail"
            /\ \A i \in 1..n :
                 ~(messages'[i].kind = "placeholder" /\ messages'[i].turn = s)
            /\ \A i \in 1..(n - 1) :
                 \E j \in 1..Len(messages) : messages'[i] = messages[j]
            /\ n <= Len(messages) + 1
            /\ Cardinality({i \in 1..n : messages'[i].kind = "apology"
                                         /\ messages'[i].turn = s}) = 1
            /\ last.kind = "apology" /\ last.turn = s
            /\ last.isBot /\ ~last.isLoading
            /\ last.text = expected
            /\ last.text \in {ServerErrorText, UnreachableText, NetworkErrorText,
                              TroubleConnecting}]_vars

\* a send that ended after three calls answered by HTTP 500, with the
\* server-error apology as the last message
FinalFailureWitness ==
  \E s \in 1..MaxSends :
    /\ sends[s].result = "failed"
    /\ sends[s].lastError = "http500"
    /\ messages[Len(messages)].kind = "apology"
    /\ messages[Len(messages)].text = ServerErrorText
    /\ \A i \in 1..Len(messages) : messages[i].kind # "placeholder"

(***************************************************************************)
(* Properties of the transcript.                                           *)
(***************************************************************************)
\* C4: at most one send is in progress, isLoading is true for as long as it
\* is, and the answers in the transcript are in the order of the requests.
SendsSerialized ==
  LET active == {s \in 1..MaxSends :
                   sends[s].pc \in {"awaitChat", "backoff", "awaitStores"}}
  IN /\ Cardinality(active) <= 1
     /\ \A s \in active : isLoading /\ s = nSends
     /\ \A i, j \in 1..Len(messages) :
          /\ i < j
          /\ messages[i].kind \in {"reply", "apology"}
          /\ messages[j].kind \in {"reply", "apology"}
          => messages[i].turn < messages[j].turn

\* the second send waits in its backoff while the answer to the first is
\* in the transcript
SendsSerializedWitness ==
  /\ nSends = 2
  /\ sends[2].pc = "backoff"
  /\ isLoading
  /\ \E i \in 1..Len(messages) : messages[i].kind = "reply" /\ messages[i].turn = 1

\* C5: every answer to a chat request in the transcript has exactly one
\* user message of its exchange before it.
AnswerFollowsItsRequest ==
  \A i \in 1..Len(messages) :
    messages[i].kind \in {"reply", "apology"} =>
      Cardinality({j \in 1..(i - 1) :
                     messages[j].kind = "user" /\ messages[j].turn = messages[i].turn}) = 1

(***************************************************************************)
(* Properties of handleClearConversation.                                  *)
(***************************************************************************)
\* C6, as the specification words it: after a clear that succeeded the
\* transcript is the greeting and nothing else.
ClearLeavesGreetingOnly ==
  [][\A c \in 1..MaxClears :
       (clears[c].pc = "await" /\ clears'[c].result = "ok") =>
         messages' = <<INITIAL_MESSAGE>>]_vars

\* C6: after a clear that succeeded the transcript is the greeting followed
\* by the confirmation that the history has been cleared, and nothing else.
ClearLeavesGreetingAndConfirmation ==
  [][\A c \in 1..MaxClears :
       (clears[c].pc = "await" /\ clears'[c].result = "ok") =>
         /\ Len(messages') = 2
         /\ messages'[1] = INITIAL_MESSAGE
         /\ messages'[2].id = 2
         /\ messages'[2].isBot
         /\ messages'[2].text =
              "Conversation history has been cleared. How can I help you today?"]_vars

\* a clear succeeded on a transcript that held an exchange
ClearWitness ==
  \E c \in 1..MaxClears :
    /\ clears[c].result = "ok"
    /\ clears[c].len >= 3
    /\ messages = <<INITIAL_MESSAGE, confirmationMessage>>

\* C7: without a session id a clear makes no request and changes nothing;
\* a clear served for a session the store does not hold succeeds like any
\* other; and a clear that succeeds right after another leaves the
\* transcript as it was.
ClearIdempotent ==
  [][/\ sessionId = Null => clears' = clears /\ nClears' = nClears
     /\ \A c \in 1..MaxClears :
          (clears[c].pc = "await" /\ clears'[c].pc = "done" /\ ~clears'[c].found) =>
            /\ clears'[c].result = "ok"
            /\ \A i \in 1..Len(messages') : messages'[i].kind # "clearError"
     /\ \A c \in 1..MaxClears :
          (/\ clears[c].pc = "await"
           /\ clears'[c].result = "ok"
           /\ messages = <<INITIAL_MESSAGE, confirmationMessage>>) =>
            messages' = messages]_vars

\* the second clear was served for a session the first had deleted, on the
\* transcript the first had left
ClearTwiceWitness ==
  /\ nClears = 2
  /\ clears[2].result = "ok"
  /\ ~clears[2].found
  /\ clears[2].len = 2
  /\ messages = <<INITIAL_MESSAGE, confirmationMessage>>

(***************************************************************************)
(* Properties of the orchestrator.                                         *)
(***************************************************************************)
\* C8: the graph lookup is the first call of a turn, and a turn whose graph
\* lookup returned evidence makes no vector call.
GraphFirstAndSufficient ==
  /\ (ostate # "START" \/ ocalls # NoCalls) => ocalls.graph >= 1
  /\ ograph = "hit" => ocalls.vector = 0 /\ ovector = "none"

\* a turn that ended with graph evidence
GraphHitWitness ==
  /\ ostate = "DONE"
  /\ ograph = "hit"
  /\ ocalls.generation >= 1

\* C9: a graph lookup that ends empty, or in an error once its retries are
\* used up, is followed by the vector lookup; from there the turn only moves
\* on towards synthesis, and FAILED is entered from SYNTHESIZE only.
GraphFailOpen ==
  [][/\ (ostate = "GRAPH_LOOKUP" /\ ostate' # "GRAPH_LOOKUP") =>
          /\ ograph' \in {"hit", "empty", "error"}
          /\ ograph' \in {"empty", "error"} =>
               ostate' = "VECTOR_LOOKUP" /\ ocalls'.vector = 1
     /\ (ostate = "GRAPH_LOOKUP" /\ ostate' = "GRAPH_LOOKUP") =>
          oattempt' = oattempt + 1 /\ oattempt' <= MAX_RETRY_ATTEMPTS
     /\ (ostate = "VECTOR_LOOKUP" /\ ostate' # ostate) => ostate' = "MERGE"
     /\ (ostate = "MERGE" /\ ostate' # ostate) =>
          ostate' \in {"STORE_LOOKUP", "SYNTHESIZE"}
     /\ (ostate = "STORE_LOOKUP" /\ ostate' # ostate) => ostate' = "SYNTHESIZE"
     /\ (ostate' = "FAILED" /\ ostate # "FAILED") => ostate = "SYNTHESIZE"]_vars

\* a turn whose graph lookup failed three times and which ended in DONE
GraphErrorWitness ==
  /\ ostate = "DONE"
  /\ ograph = "error"
  /\ ocalls.graph = MAX_RETRY_ATTEMPTS + 1
  /\ ocalls.vector >= 1

(***************************************************************************)
(* Properties of the store lookup inside a send.                           *)
(***************************************************************************)
\* C10: a send has called findNearbyStores only if it has purchase intent,
\* it knows the location and the chat response carries no stores.
StoreLookupOnlyWhenWanted ==
  \A s \in 1..MaxSends :
    sends[s].storeCalls > 0 =>
      /\ sends[s].hasPurchaseIntent
      /\ sends[s].userLocation.known
      /\ ~sends[s].response.storesPresent

\* a send that waits for the stores it asked for
StoreLookupWitness ==
  \E s \in 1..MaxSends :
    /\ sends[s].pc = "awaitStores"
    /\ sends[s].storeCalls = 1
    /\ sends[s].productName # Null

\* C11: the step in which the store lookup of a send fails appends the
\* reply with the text and the references of the chat response and without
\* stores; no further chat call has been made and the send ends well.
StoreFailureKeepsReply ==
  [][\A s \in 1..MaxSends :
       (sends[s].pc = "awaitStores" /\ sends'[s].storeResult = "failed") =>
         LET last == messages'[Len(messages')]
         IN /\ Len(messages') = Len(messages) + 1
            /\ SubSeq(messages', 1, Len(messages)) = messages
            /\ last.isBot /\ ~last.isLoading
            /\ last.text = sends[s].response.response
            /\ last.references = sends[s].response.references
            /\ last.storesNull /\ last.stores = <<>>
            /\ last.text \notin {TroubleConnecting, ServerErrorText, UnreachableText,
                                 NetworkErrorText}
            /\ sends'[s].calls = sends[s].calls
            /\ sends'[s].outcomes = sends[s].outcomes
            /\ sends'[s].result = "ok"
            /\ ~isLoading']_vars

\* a send whose store lookup failed, with its reply as the last message
StoreFailureWitness ==
  \E s \in 1..MaxSends :
    /\ sends[s].storeResult = "failed"
    /\ sends[s].result = "ok"
    /\ messages[Len(messages)].kind = "reply"
    /\ messages[Len(messages)].turn = s
    /\ messages[Len(messages)].references = <<"ref1">>

\* C12: the reply of a send whose store lookup failed ends with a sentence
\* of apology for the stores.
StoreFailureApologyInReply ==
  \A s \in 1..MaxSends :
    LET last == messages[Len(messages)]
    IN (/\ sends[s].storeResult = "failed"
        /\ last.kind = "reply"
        /\ last.turn = s) =>
         includes(last.text, "trouble finding nearby stores")

(***************************************************************************)
(* Properties of the session id.                                           *)
(***************************************************************************)
\* C13: the session id the component stores is the one of the latest
\* response that carried one (none before the first), and every chat
\* request that is under way or about to be repeated carries it.
SessionContinuity ==
  /\ sessionId = returned
  /\ \A s \in 1..MaxSends :
       sends[s].pc \in {"awaitChat", "backoff"} =>
         sends[s].payload.session_id = returned
  /\ (nSends = 1 /\ sends[1].pc \in {"awaitChat", "backoff"}) =>
       sends[1].payload.session_id = Null

\* the second send, waiting to repeat its call, carries the id the first
\* response returned
SessionContinuityWitness ==
  /\ nSends = 2
  /\ sends[2].pc = "backoff"
  /\ sends[2].payload.session_id = "s2"
  /\ sessionId = "s2"

\* C14: a clear that succeeds leaves the stored session id as it is; a
\* send carries the stored id even when the session store holds it no
\* longer; the endpoint answers no error on that account, and a response to
\* such a send is taken like any other: the reply is shown (or the stores
\* are asked for first) and the id it returns replaces the stale one.
StaleSessionNoFailure ==
  [][/\ \A c \in 1..MaxClears :
          (clears[c].pc = "await" /\ clears'[c].result = "ok") =>
            sessionId' = sessionId /\ sessionId # Null
     /\ \A s \in 1..MaxSends :
          (sends[s].pc # "awaitChat" /\ sends'[s].pc = "awaitChat" /\ sends'[s].calls = 1) =>
            /\ sends'[s].payload.session_id = sessionId
            /\ sends'[s].stale = (sessionId # Null /\ sessionId \notin serverSessions)
     /\ \A s \in 1..MaxSends :
          (sends[s].stale /\ sends[s].pc = "awaitChat" /\ sends'[s] # sends[s]) =>
            /\ sends'[s].lastError # "sessionNotFound"
            /\ sends'[s].outcomes = Append(sends[s].outcomes, "ok") =>
                 /\ sessionId' = returned'
                 /\ sessionId' \in serverSessions' \/ sessionId' = sessionId
                 /\ \/ sends'[s].pc = "awaitStores"
                    \/ /\ sends'[s].result = "ok"
                       /\ messages'[Len(messages')].kind = "reply"
                       /\ messages'[Len(messages')].turn = s]_vars

\* after a clear that succeeded, the next send carried the cleared id and
\* ended with a reply; the id of a new session has replaced the stale one
StaleSessionWitness ==
  \E s \in 1..MaxSends :
    /\ sends[s].stale
    /\ sends[s].result = "ok"
    /\ \E c \in 1..MaxClears : clears[c].result = "ok"
    /\ messages[Len(messages)].kind = "reply"
    /\ messages[Len(messages)].turn = s
    /\ sessionId = "s2"
    /\ serverSessions = {"s2"}

(***************************************************************************)
(* Properties of the intent classifier and of the product extraction.      *)
(***************************************************************************)
\* C15: checkPurchaseIntent returns true exactly when the text matches a
\* strong phrase pattern or holds both a purchase verb and a product term;
\* "Where can I buy KitKat near me?" gives true with product KitKat and
\* "What's the cocoa content of dark chocolate?" gives false.
IntentRule ==
  ipc \in {"classified", "extracted"} =>
    LET lower == toLowerCase(question)
        strong == includesAny(lower, strongBuyIntentPatterns) \/ whereSold(lower)
        verb == \E v \in {"buy", "purchase", "shop", "order"} : includes(lower, v)
        term == \E t \in {"kitkat", "kit kat", "nescafe", "smarties", "perrier",
                          "chocolate", "coffee", "water", "nestle"} :
                  includes(lower, t)
    IN /\ hasIntent = (strong \/ (~strong /\ verb /\ term))
       /\ question = "Where can I buy KitKat near me?" =>
            hasIntent /\ (ipc = "extracted" => product = "KitKat")
       /\ question = "What's the cocoa content of dark chocolate?" => ~hasIntent

\* the question of the example has been classified and its product found
IntentRuleWitness ==
  /\ ipc = "extracted"
  /\ question = "Where can I buy KitKat near me?"
  /\ hasIntent
  /\ product = "KitKat"

\* C16: the product selected is the first name of the vocabulary that the
\* user's message holds, exactly or after both are reduced to their
\* alphanumeric characters; when there is none, the first name that the
\* response holds in one of the same two ways; when there is none, no
\* product.
ExtractionAsSpecified ==
  ipc = "extracted" =>
    LET Holds(text, name) ==
          \/ includes(text, name)
          \/ includes(normalize(toLowerCase(text)), normalize(toLowerCase(name)))
        First(text) ==
          IF \E k \in DOMAIN productNames : Holds(text, productNames[k])
          THEN productNames[CHOOSE k \in DOMAIN productNames :
                              /\ Holds(text, productNames[k])
                              /\ \A j \in 1..(k - 1) : ~Holds(text, productNames[j])]
          ELSE Null
    IN product = IF First(question) # Null THEN First(question) ELSE First(answer)

(***************************************************************************)
(* Properties of the messages of the transcript.                           *)
(***************************************************************************)
\* C17: the stores of every message of the transcript are in non-decreasing
\* order of distance.
StoresOrderedByDistance ==
  \A i \in 1..Len(messages) :
    \A j, k \in 1..Len(messages[i].stores) :
      j < k => messages[i].stores[j].distance <= messages[i].stores[k].distance

\* a reply to which the lookup made after the location was shared has
\* attached two stores
StoresOrderedWitness ==
  \E i \in 1..Len(messages) :
    /\ messages[i].kind = "reply"
    /\ ~messages[i].storesNull
    /\ Len(messages[i].stores) = 2
    /\ userLocation.known
    /\ nLoc = 1

LoadingEnds == isLoading ~> ~isLoading

\* C20, as the specification words it: no step changes the text, the
\* role, the references or the stores of a message that is in the
\* transcript, the loading placeholder apart.
MessagesImmutable ==
  [][\A i \in 1..Len(messages) :
       (/\ i <= Len(messages')
        /\ messages[i].kind # "placeholder"
        /\ messages'[i].id = messages[i].id
        /\ messages'[i].kind = messages[i].kind
        /\ messages'[i].turn = messages[i].turn) =>
         /\ messages'[i].text = messages[i].text
         /\ messages'[i].isBot = messages[i].isBot
         /\ messages'[i].references = messages[i].references
         /\ messages'[i].stores = messages[i].stores]_vars

\* C20: no step changes the role or the references of a message that is
\* in the transcript; its text and its stores are changed by the steps of
\* getUserLocation only, for a bot message only, and the new text begins
\* with the text the message had in the transcript getUserLocation
\* captured, or had just before.
MessagesChangedByLocationOnly ==
  [][\A i \in 1..Len(messages) :
       (/\ i <= Len(messages')
        /\ messages[i].kind # "placeholder"
        /\ messages'[i].id = messages[i].id
        /\ messages'[i].kind = messages[i].kind
        /\ messages'[i].turn = messages[i].turn) =>
         /\ messages'[i].isBot = messages[i].isBot
         /\ messages'[i].references = messages[i].references
         /\ (messages'[i].text # messages[i].text \/ messages'[i].stores # messages[i].stores) =>
              /\ loc' # loc
              /\ messages[i].isBot
              /\ LET new == messages'[i].text
                     Begins(old) == Len(old) <= Len(new) /\ SubSeq(new, 1, Len(old)) = old
                 IN \/ Begins(messages[i].text)
                    \/ i <= Len(loc.snapshot) /\ Begins(loc.snapshot[i].text)]_vars

\* the lookup made after the location was shared has attached stores to a
\* reply that was in the transcript already
MessageChangedWitness ==
  \E i \in 1..Len(messages) :
    /\ messages[i].kind = "reply"
    /\ messages[i].text = "Here is what I found."
    /\ ~messages[i].storesNull
    /\ messages[i].stores # <<>>
    /\ loc.pc = "idle"
    /\ nLoc = 1

(***************************************************************************)
(* Properties of the waits of the retry loop.                              *)
(***************************************************************************)
\* C21, as the specification words it: the wait before attempt n (counted
\* from 0) is base_delay * 2^n for every attempt but attempt 0, which no
\* wait precedes.
WaitBeforeAttemptIsBaseTimesTwoToN ==
  \A s \in 1..MaxSends :
    \A k \in 1..Len(sends[s].delays) :
      LET n == k - 1
      IN sends[s].delays[k] = IF n = 0 THEN 0 ELSE BaseDelay * 2^n

\* C21: no wait precedes attempt 0; the wait before attempt n >= 1, the one
\* that follows the failure of attempt n - 1, is base_delay * 2^(n - 1);
\* every wait follows a failed attempt and is followed by an attempt, and
\* none follows attempt MAX_RETRY_ATTEMPTS, the last one.
WaitsOnlyBetweenAttempts ==
  \A s \in 1..MaxSends :
    LET snd == sends[s]
    IN /\ \A k \in 1..Len(snd.delays) :
            LET n == k - 1
            IN snd.delays[k] = IF n = 0 THEN 0 ELSE BaseDelay * 2^(n - 1)
       /\ Len(snd.delays) = snd.calls
       /\ snd.calls <= MAX_RETRY_ATTEMPTS + 1
       /\ snd.pc = "backoff" =>
            /\ snd.calls <= MAX_RETRY_ATTEMPTS
            /\ Len(snd.outcomes) = snd.calls
            /\ snd.outcomes[snd.calls] = "fail"
       /\ snd.pc = "done" =>
            /\ Len(snd.outcomes) = snd.calls
            /\ \A k \in 1..(snd.calls - 1) : snd.outcomes[k] = "fail"

\* a send whose three attempts were lost has ended, after waits of 1000 and
\* 2000 ms and none after the third attempt
WaitsWitness ==
  \E s \in 1..MaxSends :
    /\ sends[s].pc = "done"
    /\ sends[s].result = "failed"
    /\ sends[s].lastError = "network"
    /\ sends[s].delays = <<0, 1000, 2000>>
    /\ sends[s].outcomes = <<"fail", "fail", "fail">>

(***************************************************************************)
(* Properties of the chat request.                                         *)
(***************************************************************************)
\* C22: a chat request of a send that started with the location known
\* carries the latitude and the longitude of that location, whatever their
\* values.
RequestCarriesKnownLocation ==
  \A s \in 1..MaxSends :
    (sends[s].pc \in {"awaitChat", "backoff"} /\ sends[s].userLocation.known) =>
      /\ sends[s].payload.hasLocation
      /\ sends[s].payload.latitude = sends[s].userLocation.latitude
      /\ sends[s].payload.longitude = sends[s].userLocation.longitude

(***************************************************************************)
(* Properties of getUserLocation.                                          *)
(***************************************************************************)
\* C23: in the location flow, a store lookup that resolves with an empty
\* list appends the sentence that no nearby store was found, a lookup that
\* is rejected appends the sentence that there was trouble finding stores;
\* neither message holds the sentence of the other, neither has stores, and
\* the two messages differ.
EmptyListIsNotFailure ==
  [][(loc.pc = "stores" /\ loc'.pc = "idle" /\ loc'.result \in {"empty", "failed"}) =>
       LET old == loc.snapshot[loc.index]
           new == messages'[loc.index]
           name == IF loc.productName # Null THEN loc.productName ELSE "Nestle products"
           emptyText == old.text \o "\n\nI couldn't find any nearby stores that carry "
                          \o name \o " within a reasonable distance. You can still purchase online through retailers like Amazon."
           failedText == old.text \o "\n\nI had trouble finding nearby stores. Please try again later."
       IN /\ emptyText # failedText
          /\ loc'.result = "empty" =>
               /\ new.text = emptyText
               /\ ~includes(new.text, "had trouble finding nearby stores")
          /\ loc'.result = "failed" =>
               /\ new.text = failedText
               /\ ~includes(new.text, "couldn't find any nearby stores")
          /\ new.stores = old.stores /\ new.storesNull = old.storesNull
          /\ ~new.isLoading]_vars

\* the lookup made after the location was shared has resolved with an
\* empty list, and the message says that no nearby store was found
EmptyListWitness ==
  /\ loc.pc = "idle"
  /\ loc.result = "empty"
  /\ userLocation.known
  /\ \E i \in 1..Len(messages) :
       /\ includes(messages[i].text, "couldn't find any nearby stores")
       /\ messages[i].storesNull

(***************************************************************************)
(* Termination of a send.                                                  *)
(***************************************************************************)
\* C24: a send makes at least 1 and at most MAX_RETRY_ATTEMPTS + 1 = 3 chat
\* calls, every call but the last one made has failed, and no call follows
\* a success; when every call is settled in the end, a send that is under
\* way ends, and isLoading is false when it has.
SendTerminates ==
  /\ [](\A s \in 1..MaxSends :
          LET snd == sends[s]
              n == Len(snd.outcomes)
          IN (snd.pc \in {"awaitChat", "backoff", "awaitStores"} \/ snd.result # Null) =>
               /\ snd.calls >= 1 /\ snd.calls <= 3
               /\ snd.calls = snd.retryCount + 1
               /\ n = IF snd.pc = "awaitChat" THEN snd.calls - 1 ELSE snd.calls
               /\ \A k \in 1..n : snd.outcomes[k] = "ok" => k = snd.calls
               /\ snd.pc = "backoff" => snd.outcomes[n] = "fail"
               /\ snd.pc = "awaitStores" => snd.outcomes[n] = "ok"
               /\ snd.result = "ok" => snd.outcomes[n] = "ok"
               /\ snd.result = "failed" => snd.outcomes[n] = "fail" /\ snd.calls = 3)
  /\ \A s \in 1..MaxSends :
       (sends[s].pc \in {"awaitChat", "backoff", "awaitStores"})
         ~> (sends[s].pc = "done" /\ sends[s].result # Null /\ ~isLoading)

\* a send has ended well after one failed call and one retry
SendTerminatesWitness ==
  \E s \in 1..MaxSends :
    /\ sends[s].pc = "done"
    /\ sends[s].result = "ok"
    /\ sends[s].outcomes = <<"fail", "ok">>
    /\ sends[s].calls = 2
    /\ ~isLoading

(***************************************************************************)
(* Properties of a send that no clear and no location action overlaps.     *)
(***************************************************************************)
\* C25: the first step of a send appends the user message and the loading
\* placeholder; the placeholder is in the transcript at most once and does
\* not come back; the step that ends the send leaves the transcript the
\* send found with two messages more, the user message and after it one bot
\* message, the reply or the apology, and no message that is loading.
SendAddsTwoMessages ==
  [][\A s \in 1..MaxSends :
       LET Placeholders(msgs) ==
             {i \in 1..Len(msgs) : msgs[i].kind = "placeholder" /\ msgs[i].turn = s}
           before == sends[s].loadingMessageId - 2
           n == Len(messages')
       IN /\ (nSends' = s /\ nSends = s - 1) =>
               /\ Len(messages') = Len(messages) + 2
               /\ SubSeq(messages', 1, Len(messages)) = messages
               /\ messages'[n - 1].kind = "user" /\ ~messages'[n - 1].isBot
               /\ messages'[n].kind = "placeholder" /\ messages'[n].isLoading
          /\ Cardinality(Placeholders(messages')) <= 1
          /\ (nSends >= s /\ Placeholders(messages) = {}) => Placeholders(messages') = {}
          /\ (sends[s].pc \in {"awaitChat", "awaitStores"} /\ sends'[s].pc = "done") =>
               /\ n = before + 2
               /\ SubSeq(messages', 1, before) = SubSeq(messages, 1, before)
               /\ messages'[n - 1].kind = "user" /\ messages'[n - 1].turn = s
               /\ ~messages'[n - 1].isBot
               /\ messages'[n].kind \in {"reply", "apology"} /\ messages'[n].turn = s
               /\ messages'[n].isBot
               /\ \A i \in 1..n : ~messages'[i].isLoading]_vars

(***************************************************************************)
(* Properties of the message ids.                                          *)
(***************************************************************************)
\* C26: the ids of the messages of the transcript are pairwise distinct,
\* and the step that removes the placeholder of a send removes no other
\* message.
MessageIdsDistinct ==
  /\ [](\A i, j \in 1..Len(messages) : i # j => messages[i].id # messages[j].id)
  /\ [][\A s \in 1..MaxSends :
          (sends[s].pc = "awaitChat" /\ sends'[s].pc \in {"awaitStores", "done"}) =>
            \A i \in 1..Len(messages) :
              messages[i].kind # "placeholder" =>
                \E j \in 1..Len(messages') : messages'[j] = messages[i]]_vars

\* C27: the step that ends a location sharing (the store lookup resolved or
\* was rejected, or the geolocation failed) keeps in the transcript every
\* user message and every reply of a send that started after the sharing
\* had started and has received its reply.
LateLocationKeepsMessages ==
  [][(loc.pc \in {"geo", "stores"} /\ loc'.pc = "idle") =>
       \A i \in 1..Len(messages) :
         (/\ messages[i].kind \in {"user", "reply"}
          /\ \E r \in 1..Len(messages) :
               messages[r].kind = "reply" /\ messages[r].turn = messages[i].turn
          /\ \A k \in 1..Len(loc.snapshot) :
               ~(loc.snapshot[k].kind = messages[i].kind
                   /\ loc.snapshot[k].turn = messages[i].turn)) =>
           \E j \in 1..Len(messages') :
             /\ messages'[j].kind = messages[i].kind
             /\ messages'[j].turn = messages[i].turn
             /\ messages'[j].text = messages[i].text]_vars

(***************************************************************************)
(* Properties of a send with a blank input.                                *)
(***************************************************************************)
\* C28: while the input is empty or made of white space only, no step
\* starts a send: no call of handleSendMessage is counted, no user message
\* and no placeholder is added that the transcript, or the copy of it that
\* getUserLocation holds, did not have; no chat request is made, and when no
\* earlier send is under way isLoading and sessionId keep their values; the
\* text of a user message and the query of a chat request are never blank.
BlankSendChangesNothing ==
  /\ [](/\ \A i \in 1..Len(messages) :
             messages[i].kind = "user" => messages[i].text \notin {"", " ", "  "}
        /\ \A s \in 1..MaxSends :
             sends[s].pc \in {"awaitChat", "backoff", "awaitStores"} =>
               sends[s].payload.query \notin {"", " ", "  "})
  /\ [][(input \in {"", " ", "  "}) =>
          LET Known(m) ==
                \/ \E j \in 1..Len(messages) : messages[j] = m
                \/ \E k \in 1..Len(loc.snapshot) : loc.snapshot[k] = m
          IN /\ nSends' = nSends
             /\ \A i \in 1..Len(messages') :
                  messages'[i].kind \in {"user", "placeholder"} => Known(messages'[i])
             /\ \A s \in 1..MaxSends :
                  sends[s].pc \in {"idle", "done"} => sends'[s].pc \in {"idle", "done"}
             /\ (\A s \in 1..MaxSends : sends[s].pc \in {"idle", "done"}) =>
                  /\ sends' = sends
                  /\ isLoading' = isLoading
                  /\ sessionId' = sessionId]_vars

\* the user has typed two spaces after a first exchange, and the send
\* button or the Enter key can call handleSendMessage
BlankSendWitness ==
  /\ input = "  "
  /\ ~isLoading
  /\ nSends = 1
  /\ sends[1].result = "ok"
  /\ Len(messages) = 3
  /\ ENABLED SendBlank

(***************************************************************************)
(* Completion of getUserLocation.                                          *)
(***************************************************************************)
\* C29: isGettingLocation is true exactly while a location sharing is under
\* way, and a sharing that is under way ends; the step that ends it, in
\* each of its four outcomes, sets isGettingLocation to false and leaves
\* the message it targets not loading, with a text that begins with the
\* text the message had when the button was clicked; a geolocation error
\* comes before any store lookup and leaves userLocation unset, the other
\* outcomes come after the store lookup, with the location set.
LocationSharingCompletes ==
  /\ [](isGettingLocation <=> loc.pc \in {"geo", "stores"})
  /\ (isGettingLocation ~> ~isGettingLocation)
  /\ [][(loc.pc \in {"geo", "stores"} /\ loc'.pc = "idle") =>
          LET old == loc.snapshot[loc.index]
              new == messages'[loc.index]
          IN /\ ~isGettingLocation'
             /\ loc'.result \in {"found", "empty", "failed", "geoError"}
             /\ new.id = old.id /\ new.isBot
             /\ ~new.isLoading
             /\ Len(new.text) >= Len(old.text)
             /\ SubSeq(new.text, 1, Len(old.text)) = old.text
             /\ loc'.result = "found" => new.stores # <<>> /\ new.text = old.text
             /\ loc'.result = "geoError" =>
                  /\ loc.pc = "geo"
                  /\ ~userLocation.known /\ ~userLocation'.known
             /\ loc'.result # "geoError" =>
                  /\ loc.pc = "stores"
                  /\ userLocation'.known /\ userLocation' = loc.location]_vars

\* a sharing has ended with the store lookup rejected: the location is set,
\* isGettingLocation is false again and the message says so after its text
LocationSharingWitness ==
  /\ loc.pc = "idle"
  /\ loc.result = "failed"
  /\ ~isGettingLocation
  /\ userLocation.known
  /\ \E i \in 1..Len(messages) :
       /\ messages[i].kind = "reply"
       /\ ~messages[i].isLoading
       /\ includes(messages[i].text, "I had trouble finding nearby stores")

(***************************************************************************)
(* Properties of the view.                                                 *)
(***************************************************************************)
\* C30: fontSize is between 12 and 22, and at most 18 while the view is
\* compact.
FontSizeWithinView ==
  /\ fontSize >= 12 /\ fontSize <= 22
  /\ ~isExpanded => fontSize <= 18

(***************************************************************************)
(* Properties of the knowledge graph manager.                              *)
(***************************************************************************)
\* C31: an update is all-or-nothing.  When handleUpdateNode reports a
\* failure, the node that was opened for editing is still in the graph as
\* it was; when handleUpdateRelationship reports a failure, the
\* relationship that was opened for editing is still in the graph.
FailedUpdateKeepsTheOriginal ==
  [][/\ (update.pc # "idle" /\ update'.pc = "idle" /\ update'.result = "failed")
          => update.opened \in graphNodes'
     /\ (relUpdate.pc # "idle" /\ relUpdate'.pc = "idle"
           /\ relUpdate'.result = "failed")
          => relUpdate.original \in graphRels']_vars

\* C32: the url cannot be changed by editing.  While an update is waiting
\* for deleteNode or for addNode, the url it gave to deleteNode and the
\* url of the node it gives to addNode, both nodeForm.url, are the url of
\* the node that was opened for editing.
UpdateKeepsTheUrl ==
  update.pc \in {"awaitDelete", "awaitAdd"} => update.form.url = update.opened.url

\* C33: a form that fails the validation sends nothing.  When
\* handleNodeSubmit runs on a form with an empty title, or of type Page
\* with an empty content or url, no addNode is in flight afterwards, the
\* alert is an error, and the form, the node list and the graph are as
\* they were.
InvalidFormSendsNothing ==
  [][(lastHandler' = "handleNodeSubmit" /\ submit.pc = "idle"
        /\ (\/ nodeForm.title = ""
            \/ nodeForm.type = "Page" /\ (nodeForm.content = "" \/ nodeForm.url = "")))
       => /\ submit'.pc = "idle"
          /\ alert'.type = "error"
          /\ UNCHANGED <<nodeForm, nodes, graphNodes, isLoadingGraph>>]_vars

\* C33: every node handleNodeSubmit sends has a non-empty url.
SubmittedNodeHasUrl ==
  submit.pc = "awaitAdd" => submit.formData.url # ""

\* C33: for type Entity with no url given, the url sent is "entity:"
\* followed by the title with its whitespace removed.
EntityUrlFromTitle ==
  [][(lastHandler' = "handleNodeSubmit" /\ submit.pc = "idle"
        /\ submit'.pc = "awaitAdd" /\ nodeForm.type = "Entity" /\ nodeForm.url = "")
       => /\ nodeForm.title = "Kit Kat" => submit'.formData.url = "entity:KitKat"
          /\ \A i \in 1..Len(submit'.formData.url) :
               CharAt(submit'.formData.url, i) \notin WhiteSpace]_vars

\* C34: isLoading is true whenever at least one request of the graph API
\* (fetch, add, delete, update or query) is in flight.
LoadingWhileInFlight ==
  InFlight > 0 => isLoadingGraph

====
